---- MODULE Spec2Model ----
(***************************************************************************)
(* Multi-user to-do backend: the task table, the HTTP task endpoints       *)
(* (backend/routes/tasks.py) and the agent tool adapter                    *)
(* (backend/agent/tools.py), which runs on one ORM session per chat turn.  *)
(*                                                                         *)
(* A handler is an operator from the committed rows, the clock and the     *)
(* request to an outcome (rows, clock, response); the action of the same   *)
(* name applies the outcome.  Strings are run-length encoded, so that the  *)
(* length limits and str.strip() are computed.  The Task table model is    *)
(* declared table=True, which skips the Field validators, and the default  *)
(* SQLite engine enforces no column length: only TaskCreate and TaskUpdate *)
(* validate.  A list response is the set of its tasks; its order is not    *)
(* modelled.                                                               *)
(***************************************************************************)
EXTENDS Integers, Sequences, FiniteSets, TLC

\* ------------------------------------------------------------------ bounds
MaxTasks == 2          \* rows the task table may hold
MaxClock == 1          \* readings of the wall clock: 0..MaxClock

\* ------------------------------------------------------- program constants
TitleMin == 1          \* Field(min_length=1)
TitleMax == 200        \* Field(max_length=200)
DescMax == 1000        \* Field(max_length=1000)

Users == {"alice", "bob"}          \* verified owner identities
NoTime == -1                       \* a NULL timestamp column

\* ----------------------------------------------------------------- strings
\* A string is kept run-length encoded: a sequence of <<character, count>>
\* runs with count > 0 and adjacent runs of different characters.
Run(c, n) == IF n = 0 THEN << >> ELSE << <<c, n>> >>

RECURSIVE StrLen(_)
StrLen(s) == IF s = << >> THEN 0 ELSE s[1][2] + StrLen(Tail(s))

IsSpace(c) == c = " "

RECURSIVE lstrip(_)
lstrip(s) == IF s # << >> /\ IsSpace(s[1][1]) THEN lstrip(Tail(s)) ELSE s

RECURSIVE rstrip(_)
rstrip(s) ==
  IF s # << >> /\ IsSpace(s[Len(s)][1]) THEN rstrip(SubSeq(s, 1, Len(s) - 1)) ELSE s

\* str.strip(): drop leading and trailing whitespace
strip(s) == rstrip(lstrip(s))

\* Strings the callers and the agent send
EmptyStr == << >>
TitleInputs == { EmptyStr, Run(" ", 1), Run("a", 1), Run("a", TitleMax + 1) }
DescInputs == { EmptyStr, Run("d", 1) \o Run(" ", 1), Run("d", DescMax + 1) }

\* An optional argument: << >> is None, <<x>> is the value x
None == << >>
Some(x) == << x >>
Opt(S) == { None } \cup { Some(x) : x \in S }

\* datetime.fromisoformat: the date strings the agent sends and their parse
DateInputs == { "", "2026-03-15", "not-a-date" }
IsIsoDate(d) == d \in { "2026-03-15" }
NoDate == "NULL"

\* ------------------------------------------------------------------- state
VARIABLES
  tasks,     \* the tasks table: id -> committed row
  now,       \* the wall clock
  toolsess,  \* the chat turn's ORM session and the tool set bound to it
  resp,      \* the last request and the response it got
  sessions,      \* the "session" table of the sign-in service: token -> row
  conversations, \* the conversations table: id -> committed row
  messages,      \* the messages table: id -> committed row
  storage,       \* the console application's TaskStorage
  issued,        \* every id TaskStorage.add has returned, in order
  menu,          \* the console application's MenuApp: where run() stands
  inflight       \* HTTP and chat requests between their read and their commit

vars == << tasks, now, toolsess, resp, sessions, conversations, messages,
           storage, issued, menu, inflight >>

\* the console application, a separate process with its own memory
console == << storage, issued, menu >>

\* what the task endpoints and the task tools never touch
chat == << sessions, conversations, messages >>

TaskIds == 1 .. MaxTasks
ReqIds == 1 .. (MaxTasks + 1)      \* ids a caller may name; the last never exists

Max(S) == CHOOSE x \in S : \A y \in S : y <= x
\* the id the database gives the next inserted row
NewId(db) == IF DOMAIN db = {} THEN 1 ELSE Max(DOMAIN db) + 1

\* Task(...) with its field defaults; created_at and updated_at are two
\* separate readings of the clock
Task(user_id, title, description, due_date, t1, t2) ==
  [ user_id |-> user_id, title |-> title, description |-> description,
    completed |-> FALSE, due_date |-> due_date,
    created_at |-> t1, updated_at |-> t2, deleted_at |-> NoTime ]

\* the next reading of the clock within one handler: the same instant or later
Later(t) == { t2 \in t .. (t + 1) : t2 <= MaxClock }

\* session.add(row); session.commit() of a new row
Insert(db, id, row) == [ i \in DOMAIN db \cup {id} |-> IF i = id THEN row ELSE db[i] ]

\* ---------------------------------------------------------------- responses
\* What the caller gets back, with the request it answers: via is "http" or
\* "tool", ok is the 2xx status or the tool's success flag, tasks the task
\* representations in the body, audit the security events the request logged.
Response(via, op, id, ok, status, code, message, body, audit) ==
  [ via |-> via, op |-> op, id |-> id, ok |-> ok,
    status |-> status, code |-> code, message |-> message,
    tasks |-> body, total |-> Cardinality(body), audit |-> audit ]

NoResp == Response("none", "none", 0, TRUE, 0, "", "", {}, {})

\* TaskResponse.model_validate(task)
TaskResponse(id, t) ==
  [ id |-> id, title |-> t.title, description |-> t.description,
    completed |-> t.completed, created_at |-> t.created_at,
    updated_at |-> t.updated_at ]

\* ------------------------------------------------------ request validation
\* TaskCreate: title 1..200 characters, description at most 1000
TaskCreate(title, description) ==
  /\ StrLen(title) >= TitleMin
  /\ StrLen(title) <= TitleMax
  /\ StrLen(description) <= DescMax

\* TaskUpdate: every field optional; a supplied one obeys the same limits
TaskUpdate(title, description, completed) ==
  /\ title # None =>
       (StrLen(title[1]) >= TitleMin /\ StrLen(title[1]) <= TitleMax)
  /\ description # None => StrLen(description[1]) <= DescMax

\* ------------------------------------------------------------ task lookup
\* a faulty lookup: select(Task).where(Task.id == task_id), deleted rows included
SelectLive_any_row(db, task_id) ==
  IF task_id \in DOMAIN db THEN Some(task_id) ELSE None

\* select(Task).where(Task.id == task_id, Task.deleted_at.is_(None)).first()
SelectLive(db, task_id) ==
  IF task_id \in DOMAIN db /\ db[task_id].deleted_at = NoTime
  THEN Some(task_id) ELSE None

\* security_logger.log_cross_user_access(...)
CrossUserEvent(user_id, task_id, owner, action) ==
  [ attempting_user_id |-> user_id, resource_type |-> "task",
    resource_id |-> task_id, actual_owner_id |-> owner, action |-> action ]

\* a faulty lookup: another owner's task is answered 403 instead of 404
get_user_task_forbidden(db, task_id, user_id, action) ==
  IF SelectLive(db, task_id) = None
  THEN [ found |-> FALSE, status |-> 404, code |-> "TASK_NOT_FOUND",
         message |-> "Task not found", audit |-> {} ]
  ELSE IF db[task_id].user_id # user_id
  THEN [ found |-> FALSE, status |-> 403, code |-> "FORBIDDEN",
         message |-> "Not your task",
         audit |-> { CrossUserEvent(user_id, task_id, db[task_id].user_id, action) } ]
  ELSE [ found |-> TRUE, status |-> 200, code |-> "", message |-> "",
         audit |-> {} ]

\* get_user_task: the task if it is live and owned by user_id, else the 404
get_user_task(db, task_id, user_id, action) ==
  IF SelectLive(db, task_id) = None
  THEN [ found |-> FALSE, status |-> 404, code |-> "TASK_NOT_FOUND",
         message |-> "Task not found", audit |-> {} ]
  ELSE IF db[task_id].user_id # user_id
  THEN [ found |-> FALSE, status |-> 404, code |-> "TASK_NOT_FOUND",
         message |-> "Task not found",
         audit |-> { CrossUserEvent(user_id, task_id, db[task_id].user_id, action) } ]
  ELSE [ found |-> TRUE, status |-> 200, code |-> "", message |-> "",
         audit |-> {} ]

\* the error response of an endpoint whose lookup failed
LookupError(op, id, g) ==
  Response("http", op, id, FALSE, g.status, g.code, g.message, {}, g.audit)

\* the 422 of the request validation handler
ValidationError(op, id) ==
  Response("http", op, id, FALSE, 422, "VALIDATION_ERROR",
           "Request validation failed", {}, {})

\* TaskStorage.__init__: no task, the id counter at 1
TaskStorage == [ tasks |-> << >>, next_id |-> 1 ]

\* MenuApp before run(): nothing read, nothing written
MenuApp == [ pc |-> "start", read |-> 0, out |-> "", title |-> EmptyStr, id |-> 0 ]

Init ==
  /\ tasks = << >>
  /\ now = 0
  /\ toolsess = << >>
  /\ resp = NoResp
  /\ sessions = << >>
  /\ conversations = << >>
  /\ messages = << >>
  /\ storage = TaskStorage
  /\ issued = << >>
  /\ menu = MenuApp
  /\ inflight = << >>

\* time passes
Tick ==
  /\ now < MaxClock
  /\ now' = now + 1
  /\ UNCHANGED << tasks, toolsess, resp, chat, console, inflight >>

\* ---------------------------------------------------------- HTTP endpoints
\* What a handler leaves behind: the committed rows, the clock after its
\* last reading, and its response.  user is get_current_user's result.
Outcome(db, clk, r) == [ tasks |-> db, now |-> clk, resp |-> r ]

Served(o) ==
  /\ tasks' = o.tasks
  /\ now' = o.now
  /\ resp' = o.resp
  /\ UNCHANGED << toolsess, chat, console, inflight >>

\* a faulty WHERE clause: the completed= parameter is ignored
ListFilter_no_status(db, user, completed) ==
  { id \in DOMAIN db : db[id].user_id = user /\ db[id].deleted_at = NoTime }

\* the WHERE clause of GET /api/tasks?completed=
ListFilter(db, user, completed) ==
  { id \in DOMAIN db :
      /\ db[id].user_id = user
      /\ db[id].deleted_at = NoTime
      /\ (completed # None => db[id].completed = completed[1]) }

list_tasks_handler(db, clk, user, completed) ==
  Outcome(db, clk,
    Response("http", "list", 0, TRUE, 200, "", "",
             { TaskResponse(id, db[id]) : id \in ListFilter(db, user, completed) }, {}))

list_tasks(user, completed) == Served(list_tasks_handler(tasks, now, user, completed))

\* GET /api/tasks/{task_id}
get_task_handler(db, clk, user, task_id) ==
  LET g == get_user_task(db, task_id, user, "read") IN
  Outcome(db, clk,
    IF g.found
    THEN Response("http", "get", task_id, TRUE, 200, "", "",
                  { TaskResponse(task_id, db[task_id]) }, {})
    ELSE LookupError("get", task_id, g))

get_task(user, task_id) == Served(get_task_handler(tasks, now, user, task_id))

\* a faulty POST /api/tasks: the owner is taken from the request body
create_task_handler_body_owner(db, clk, user, title, description, body_user_id, t2) ==
  IF ~TaskCreate(title, description)
  THEN Outcome(db, clk, ValidationError("create", 0))
  ELSE LET id == NewId(db)
           task == Task(body_user_id, title, description, NoDate, clk, t2)
       IN Outcome(Insert(db, id, task), t2,
            Response("http", "create", id, TRUE, 201, "", "",
                     { TaskResponse(id, task) }, {}))

\* POST /api/tasks.  body_user_id is a user_id field put into the request
\* body; TaskCreate does not declare it.  t2 is the clock's second reading.
create_task_handler(db, clk, user, title, description, body_user_id, t2) ==
  IF ~TaskCreate(title, description)
  THEN Outcome(db, clk, ValidationError("create", 0))
  ELSE LET id == NewId(db)
           task == Task(user, title, description, NoDate, clk, t2)
       IN Outcome(Insert(db, id, task), t2,
            Response("http", "create", id, TRUE, 201, "", "",
                     { TaskResponse(id, task) }, {}))

create_task(user, title, description, body_user_id, t2) ==
  LET o == create_task_handler(tasks, now, user, title, description, body_user_id, t2)
  IN /\ DOMAIN o.tasks \subseteq TaskIds
     /\ Served(o)

\* PUT /api/tasks/{task_id}
update_task_handler(db, clk, user, task_id, title, description, completed) ==
  LET g == get_user_task(db, task_id, user, "update") IN
  IF ~TaskUpdate(title, description, completed)
  THEN Outcome(db, clk, ValidationError("update", task_id))
  ELSE IF ~g.found
  THEN Outcome(db, clk, LookupError("update", task_id, g))
  ELSE LET task == [ db[task_id] EXCEPT
                       !.title = IF title # None THEN title[1] ELSE @,
                       !.description =
                          IF description # None THEN description[1] ELSE @,
                       !.completed = IF completed # None THEN completed[1] ELSE @,
                       !.updated_at = clk ]
       IN Outcome([ db EXCEPT ![task_id] = task ], clk,
            Response("http", "update", task_id, TRUE, 200, "", "",
                     { TaskResponse(task_id, task) }, {}))

update_task(user, task_id, title, description, completed) ==
  Served(update_task_handler(tasks, now, user, task_id, title, description, completed))

\* a faulty DELETE /api/tasks/{task_id}: session.delete(task), the row is removed
delete_task_handler_hard(db, clk, user, task_id, t2) ==
  LET g == get_user_task(db, task_id, user, "delete") IN
  IF ~g.found
  THEN Outcome(db, clk, LookupError("delete", task_id, g))
  ELSE Outcome([ i \in DOMAIN db \ {task_id} |-> db[i] ],
               t2, Response("http", "delete", task_id, TRUE, 204, "", "", {}, {}))

\* DELETE /api/tasks/{task_id}: soft delete
delete_task_handler(db, clk, user, task_id, t2) ==
  LET g == get_user_task(db, task_id, user, "delete") IN
  IF ~g.found
  THEN Outcome(db, clk, LookupError("delete", task_id, g))
  ELSE Outcome([ db EXCEPT ![task_id].deleted_at = clk, ![task_id].updated_at = t2 ],
               t2, Response("http", "delete", task_id, TRUE, 204, "", "", {}, {}))

delete_task(user, task_id, t2) == Served(delete_task_handler(tasks, now, user, task_id, t2))

\* PATCH /api/tasks/{task_id}/complete
toggle_task_completion_handler(db, clk, user, task_id) ==
  LET g == get_user_task(db, task_id, user, "toggle") IN
  IF ~g.found
  THEN Outcome(db, clk, LookupError("toggle", task_id, g))
  ELSE LET task == [ db[task_id] EXCEPT !.completed = ~@, !.updated_at = clk ]
       IN Outcome([ db EXCEPT ![task_id] = task ], clk,
            Response("http", "toggle", task_id, TRUE, 200, "", "",
                     { TaskResponse(task_id, task) }, {}))

toggle_task_completion(user, task_id) ==
  Served(toggle_task_completion_handler(tasks, now, user, task_id))

\* ------------------------------------------------------------- agent tools
\* The tools of one chat turn share the turn's ORM session.  A row object a
\* tool assigned to without committing stays modified in that session:
\* pending maps its id to the title and description assigned (None = not
\* assigned).  Every query of the session sees the pending values and every
\* commit of the session writes them.
NoPending == << >>
Assigned(pending, id) ==
  IF id \in DOMAIN pending THEN pending[id] ELSE [ title |-> None, description |-> None ]

\* the rows as the session sees them, and as its next commit leaves them
SessionView(db, pending) ==
  [ id \in DOMAIN db |->
      [ db[id] EXCEPT
          !.title = IF Assigned(pending, id).title # None
                    THEN Assigned(pending, id).title[1] ELSE @,
          !.description = IF Assigned(pending, id).description # None
                          THEN Assigned(pending, id).description[1] ELSE @ ] ]

Session(user_id, pending) == << [ user_id |-> user_id, pending |-> pending ] >>

\* What a tool call leaves behind: as Outcome, and the session's pending
\* assignments
ToolOutcome(db, clk, pending, r) ==
  [ tasks |-> db, now |-> clk, pending |-> pending, resp |-> r ]

ToolResult(op, id, ok, code, message, body) ==
  Response("tool", op, id, ok, 0, code, message, body, {})

ToolNotFound(op, id) ==
  ToolResult(op, id, FALSE, "TASK_NOT_FOUND", "Task not found", {})

\* a faulty check after the select by id: "if not task", the owner not compared
ToolLookup_any_owner(db, task_id, user_id) ==
  SelectLive(db, task_id) # None

\* "if not task or task.user_id != user_id" after the select by id
ToolLookup(db, task_id, user_id) ==
  SelectLive(db, task_id) # None /\ db[task_id].user_id = user_id

\* add_task(title, description, due_date)
add_task_impl(db, clk, user_id, pending, title, description, due_date, t2) ==
  IF due_date # None /\ due_date[1] # "" /\ ~IsIsoDate(due_date[1])
  THEN ToolOutcome(db, clk, pending,
         ToolResult("add", 0, FALSE, "VALIDATION_ERROR", "Invalid date format", {}))
  ELSE LET id == NewId(db)
           parsed == IF due_date # None /\ due_date[1] # "" THEN due_date[1] ELSE NoDate
           task == Task(user_id, strip(title), strip(description), parsed, clk, t2)
       IN ToolOutcome(Insert(SessionView(db, pending), id, task), t2, NoPending,
            ToolResult("add", id, TRUE, "", "created successfully",
                       { [ task_id |-> id, title |-> task.title,
                           description |-> task.description, status |-> "pending" ] }))

\* a faulty WHERE clause of list_tasks(status): Task.user_id is not compared
ToolListFilter_all_owners(db, user_id, status) ==
  { id \in DOMAIN db :
      /\ db[id].deleted_at = NoTime
      /\ (status = "pending" => db[id].completed = FALSE)
      /\ (status = "completed" => db[id].completed = TRUE) }

\* the WHERE clause of list_tasks(status)
ToolListFilter(db, user_id, status) ==
  { id \in DOMAIN db :
      /\ db[id].user_id = user_id
      /\ db[id].deleted_at = NoTime
      /\ (status = "pending" => db[id].completed = FALSE)
      /\ (status = "completed" => db[id].completed = TRUE) }

\* list_tasks(status)
list_tasks_impl(db, clk, user_id, pending, status) ==
  LET view == SessionView(db, pending) IN
  ToolOutcome(db, clk, pending,
    ToolResult("list", 0, TRUE, "", "Found task(s)",
               { [ task_id |-> id, title |-> view[id].title,
                   description |-> view[id].description,
                   completed |-> view[id].completed,
                   created_at |-> view[id].created_at ] :
                   id \in ToolListFilter(view, user_id, status) }))

\* a faulty complete_task: no "if task.completed" branch, every call writes
complete_task_impl_always_writes(db, clk, user_id, pending, task_id) ==
  LET view == SessionView(db, pending) IN
  IF ~ToolLookup(view, task_id, user_id)
  THEN ToolOutcome(db, clk, pending, ToolNotFound("complete", task_id))
  ELSE ToolOutcome([ view EXCEPT ![task_id].completed = TRUE,
                                 ![task_id].updated_at = clk ], clk, NoPending,
         ToolResult("complete", task_id, TRUE, "", "marked as completed",
                    { [ task_id |-> task_id, title |-> view[task_id].title,
                        status |-> "completed", completed_at |-> clk ] }))

\* complete_task(task_id)
complete_task_impl(db, clk, user_id, pending, task_id) ==
  LET view == SessionView(db, pending) IN
  IF ~ToolLookup(view, task_id, user_id)
  THEN ToolOutcome(db, clk, pending, ToolNotFound("complete", task_id))
  ELSE IF view[task_id].completed
  THEN ToolOutcome(db, clk, pending,
         ToolResult("complete", task_id, TRUE, "", "already completed",
                    { [ task_id |-> task_id, title |-> view[task_id].title,
                        status |-> "completed" ] }))
  ELSE ToolOutcome([ view EXCEPT ![task_id].completed = TRUE,
                                 ![task_id].updated_at = clk ], clk, NoPending,
         ToolResult("complete", task_id, TRUE, "", "marked as completed",
                    { [ task_id |-> task_id, title |-> view[task_id].title,
                        status |-> "completed", completed_at |-> clk ] }))

\* delete_task(task_id)
delete_task_impl(db, clk, user_id, pending, task_id, t2) ==
  LET view == SessionView(db, pending) IN
  IF ~ToolLookup(view, task_id, user_id)
  THEN ToolOutcome(db, clk, pending, ToolNotFound("delete", task_id))
  ELSE ToolOutcome([ view EXCEPT ![task_id].deleted_at = clk,
                                 ![task_id].updated_at = t2 ], t2, NoPending,
         ToolResult("delete", task_id, TRUE, "", "deleted successfully",
                    { [ task_id |-> task_id, title |-> view[task_id].title ] }))

\* update_task(task_id, title, description, due_date)
update_task_impl(db, clk, user_id, pending, task_id, title, description, due_date) ==
  LET view == SessionView(db, pending) IN
  IF title = None /\ description = None /\ due_date = None
  THEN ToolOutcome(db, clk, pending,
         ToolResult("update", task_id, FALSE, "VALIDATION_ERROR",
                    "At least one field must be provided", {}))
  ELSE IF ~ToolLookup(view, task_id, user_id)
  THEN ToolOutcome(db, clk, pending, ToolNotFound("update", task_id))
  ELSE LET assigned ==
             [ title |-> IF title # None THEN Some(strip(title[1]))
                         ELSE Assigned(pending, task_id).title,
               description |-> IF description # None THEN Some(strip(description[1]))
                               ELSE Assigned(pending, task_id).description ]
           pending2 == [ i \in DOMAIN pending \cup {task_id} |->
                           IF i = task_id THEN assigned ELSE pending[i] ]
           view2 == SessionView(db, pending2)
       IN
       IF due_date # None /\ ~IsIsoDate(due_date[1])
       THEN \* returns after the title and description were assigned
            ToolOutcome(db, clk, pending2,
              ToolResult("update", task_id, FALSE, "VALIDATION_ERROR",
                         "Invalid date format", {}))
       ELSE LET task == [ view2[task_id] EXCEPT
                            !.due_date = IF due_date # None THEN due_date[1] ELSE @,
                            !.updated_at = clk ]
            IN ToolOutcome([ view2 EXCEPT ![task_id] = task ], clk, NoPending,
                 ToolResult("update", task_id, TRUE, "", "updated successfully",
                            { [ task_id |-> task_id, title |-> task.title,
                                description |-> task.description,
                                updated_at |-> task.updated_at ] }))

\* create_tools_for_user(current_user, session): user_id is bound here and is
\* no parameter of any tool
create_tools_for_user(user_id) ==
  /\ toolsess = << >>
  /\ toolsess' = Session(user_id, NoPending)
  /\ UNCHANGED << tasks, now, resp, chat, console, inflight >>

\* leaving "with Session(...)": what was not committed is rolled back
close_session ==
  /\ toolsess # << >>
  /\ toolsess' = << >>
  /\ UNCHANGED << tasks, now, resp, chat, console, inflight >>

\* a call of one of the bound tools by the agent
Called(o) ==
  /\ tasks' = o.tasks
  /\ now' = o.now
  /\ resp' = o.resp
  /\ toolsess' = Session(toolsess[1].user_id, o.pending)
  /\ UNCHANGED << chat, console, inflight >>

add_task(title, description, due_date, t2) ==
  /\ toolsess # << >>
  /\ LET o == add_task_impl(tasks, now, toolsess[1].user_id, toolsess[1].pending,
                            title, description, due_date, t2)
     IN /\ DOMAIN o.tasks \subseteq TaskIds
        /\ Called(o)

list_tasks_tool(status) ==
  /\ toolsess # << >>
  /\ Called(list_tasks_impl(tasks, now, toolsess[1].user_id, toolsess[1].pending, status))

complete_task(task_id) ==
  /\ toolsess # << >>
  /\ Called(complete_task_impl(tasks, now, toolsess[1].user_id, toolsess[1].pending,
                               task_id))

delete_task_tool(task_id, t2) ==
  /\ toolsess # << >>
  /\ Called(delete_task_impl(tasks, now, toolsess[1].user_id, toolsess[1].pending,
                             task_id, t2))

update_task_tool(task_id, title, description, due_date) ==
  /\ toolsess # << >>
  /\ Called(update_task_impl(tasks, now, toolsess[1].user_id, toolsess[1].pending,
                             task_id, title, description, due_date))

\* ------------------------------------------------------- the specifications
\* The same handlers are driven with different request sets:
\*   Spec        two owners, every endpoint and every tool, well-formed and
\*               malformed requests, all requests within one clock reading
\*   SpecValid   one owner, the write paths with titles and descriptions at
\*               and beyond the length limits
\*   SpecUpdate  one owner, updates over HTTP and through the tool while the
\*               clock advances

StatusInputs == { "all", "pending", "completed" }

\* request sets of Spec
PlainTitle == Run("a", 1)
HttpTitles == { EmptyStr, PlainTitle }     \* the empty title is malformed
ToolTitles == { PlainTitle }
Descs == { EmptyStr }

HttpRequest ==
  \E user \in Users :
    \/ \E completed \in Opt(BOOLEAN) : list_tasks(user, completed)
    \/ \E id \in ReqIds : get_task(user, id)
    \/ \E title \in HttpTitles, description \in Descs, b \in Users :
         create_task(user, title, description, b, now)
    \/ \E id \in ReqIds, title \in Opt(HttpTitles), completed \in Opt(BOOLEAN) :
         update_task(user, id, title, None, completed)
    \/ \E id \in ReqIds : delete_task(user, id, now)
    \/ \E id \in ReqIds : toggle_task_completion(user, id)

ToolCall ==
  \/ \E title \in ToolTitles, description \in Descs : add_task(title, description, None, now)
  \/ \E status \in StatusInputs : list_tasks_tool(status)
  \/ \E id \in ReqIds : complete_task(id)
  \/ \E id \in ReqIds : delete_task_tool(id, now)
  \/ \E id \in ReqIds, title \in Opt(ToolTitles) : update_task_tool(id, title, None, None)

Next ==
  \/ HttpRequest
  \/ ToolCall
  \/ \E user \in Users : create_tools_for_user(user)
  \/ close_session

Spec == Init /\ [][Next]_vars

\* request sets of SpecValid: one owner, the four write paths, titles and
\* descriptions at and beyond the limits
Owner == "alice"

NextValid ==
  \/ \E title \in TitleInputs, description \in DescInputs :
       create_task(Owner, title, description, Owner, now)
  \/ \E id \in TaskIds, title \in Opt(TitleInputs), description \in Opt(DescInputs) :
       update_task(Owner, id, title, description, None)
  \/ \E title \in TitleInputs, description \in DescInputs :
       add_task(title, description, None, now)
  \/ \E id \in TaskIds, title \in Opt(TitleInputs), description \in Opt(DescInputs) :
       update_task_tool(id, title, description, None)
  \/ create_tools_for_user(Owner)
  \/ close_session

SpecValid == Init /\ [][NextValid]_vars

\* request sets of SpecUpdate: one owner, the two update paths while the
\* clock advances, due dates that parse and that do not
UpdTitles == { PlainTitle, Run("b", 1) }

NextUpdate ==
  \/ Tick
  \/ \E t2 \in Later(now) : create_task(Owner, PlainTitle, EmptyStr, Owner, t2)
  \/ \E id \in TaskIds, title \in Opt(UpdTitles), completed \in Opt(BOOLEAN) :
       update_task(Owner, id, title, None, completed)
  \/ \E id \in TaskIds, title \in Opt(UpdTitles), due_date \in Opt(DateInputs) :
       update_task_tool(id, title, None, due_date)
  \/ create_tools_for_user(Owner)
  \/ close_session

SpecUpdate == Init /\ [][NextUpdate]_vars

\* ------------------------------------------------------------ vocabulary
Live(db, id) == id \in DOMAIN db /\ db[id].deleted_at = NoTime
Deleted(db, id) == id \in DOMAIN db /\ db[id].deleted_at # NoTime
\* a live task of somebody other than user
Foreign(db, id, user) == Live(db, id) /\ db[id].user_id # user
\* an id the table never issued
MissingId == MaxTasks + 1

\* the ids of the tasks a response shows
RespIds(r) ==
  IF r.via = "tool" THEN { v.task_id : v \in r.tasks } ELSE { v.id : v \in r.tasks }

\* what the caller can see of a response (the audit log is not sent)
Visible(r) ==
  [ ok |-> r.ok, status |-> r.status, code |-> r.code, message |-> r.message,
    tasks |-> r.tasks ]

IsNotFound(r) ==
  /\ ~r.ok
  /\ r.code = "TASK_NOT_FOUND"
  /\ r.message = "Task not found"
  /\ r.tasks = {}
  /\ (r.via = "http" => r.status = 404)

IsValidationError(r) ==
  /\ ~r.ok
  /\ r.code = "VALIDATION_ERROR"
  /\ r.tasks = {}
  /\ (r.via = "http" => r.status = 422)

\* the pending assignments of the tool set bound to user (none when the
\* turn's session is another owner's or not open)
PendingOf(user) ==
  IF toolsess # << >> /\ toolsess[1].user_id = user THEN toolsess[1].pending
  ELSE NoPending

\* The requests of Spec that name a task by id
ByIdRequests ==
  { [ kind |-> k, title |-> None, completed |-> None ] :
      k \in { "get", "delete", "toggle", "tool_complete", "tool_delete" } }
  \cup { [ kind |-> "update", title |-> t, completed |-> c ] :
           t \in Opt(HttpTitles), c \in Opt(BOOLEAN) }
  \cup { [ kind |-> "tool_update", title |-> t, completed |-> None ] :
           t \in Opt(ToolTitles) }

\* The requests of Spec that name no task
TableRequests ==
  { [ kind |-> "list", completed |-> c ] : c \in Opt(BOOLEAN) }
  \cup { [ kind |-> "create", title |-> t, description |-> d, body_user_id |-> b ] :
           t \in HttpTitles, d \in Descs, b \in Users }
  \cup { [ kind |-> "tool_add", title |-> t, description |-> d ] :
           t \in ToolTitles, d \in Descs }
  \cup { [ kind |-> "tool_list", status |-> st ] : st \in StatusInputs }

\* the calls among them that go through the agent's tool set
ToolKinds == { "tool_add", "tool_list", "tool_complete", "tool_delete", "tool_update" }

\* the request passes the validation that precedes the lookup
WellFormed(q) ==
  CASE q.kind = "update" -> TaskUpdate(q.title, None, q.completed)
    [] q.kind = "tool_update" -> q.title # None
    [] OTHER -> TRUE

\* the outcome of request q by user in the current state; id is the task a
\* request by id names
Answer(user, id, q) ==
  CASE q.kind = "list" -> list_tasks_handler(tasks, now, user, q.completed)
    [] q.kind = "get" -> get_task_handler(tasks, now, user, id)
    [] q.kind = "create" ->
         create_task_handler(tasks, now, user, q.title, q.description,
                             q.body_user_id, now)
    [] q.kind = "update" ->
         update_task_handler(tasks, now, user, id, q.title, None, q.completed)
    [] q.kind = "delete" -> delete_task_handler(tasks, now, user, id, now)
    [] q.kind = "toggle" -> toggle_task_completion_handler(tasks, now, user, id)
    [] q.kind = "tool_add" ->
         add_task_impl(tasks, now, user, PendingOf(user), q.title, q.description,
                       None, now)
    [] q.kind = "tool_list" ->
         list_tasks_impl(tasks, now, user, PendingOf(user), q.status)
    [] q.kind = "tool_complete" ->
         complete_task_impl(tasks, now, user, PendingOf(user), id)
    [] q.kind = "tool_delete" ->
         delete_task_impl(tasks, now, user, PendingOf(user), id, now)
    [] q.kind = "tool_update" ->
         update_task_impl(tasks, now, user, PendingOf(user), id, q.title, None, None)

\* ------------------------------------------------------------------ C1
\* C1 (as stated): any get, update, delete or toggle by A, over HTTP or
\* through A's tools, on a live task of another owner B fails with the
\* not-found error and leaves B's task unchanged.
C1_CrossOwnerNotFound ==
  \A A \in Users, id \in DOMAIN tasks :
    Foreign(tasks, id, A) =>
      \A q \in ByIdRequests :
        LET o == Answer(A, id, q) IN
        IsNotFound(o.resp) /\ o.tasks[id] = tasks[id]

\* C1 (amended): such a request always fails and leaves B's task unchanged;
\* the error is not-found, except that a request rejected by validation
\* before the lookup (a PUT body outside the TaskUpdate limits, an
\* update_task call with no field) fails with the validation error.
C1_CrossOwnerFails ==
  \A A \in Users, id \in DOMAIN tasks :
    Foreign(tasks, id, A) =>
      \A q \in ByIdRequests :
        LET o == Answer(A, id, q) IN
        /\ IF WellFormed(q) THEN IsNotFound(o.resp) ELSE IsValidationError(o.resp)
        /\ o.tasks[id] = tasks[id]

\* a caller was just refused a live task over HTTP: the audit event names the
\* caller and the owner
C1_Witness ==
  /\ resp.via = "http"
  /\ IsNotFound(resp)
  /\ Live(tasks, resp.id)
  /\ \E e \in resp.audit :
       e.attempting_user_id # e.actual_owner_id /\ e.resource_id = resp.id

\* ------------------------------------------------------------------ C2
\* C2: what a caller sees when it names a live task of another owner is what
\* it sees when it makes the same request with an id that never existed, for
\* get, update, delete, toggle and the three tools; the status is never 403.
C2_ForeignLooksMissing ==
  \A A \in Users, id \in DOMAIN tasks :
    Foreign(tasks, id, A) =>
      \A q \in ByIdRequests :
        LET r == Answer(A, id, q).resp IN
        /\ Visible(r) = Visible(Answer(A, MissingId, q).resp)
        /\ r.status # 403

\* a tool was just refused a live task, which is then another owner's
C2_Witness ==
  /\ resp.via = "tool"
  /\ IsNotFound(resp)
  /\ Live(tasks, resp.id)
  /\ toolsess # << >>
  /\ tasks[resp.id].user_id # toolsess[1].user_id

\* ------------------------------------------------------------------ C3
\* outcome o leaves the rows of every owner but U, creates rows of U only
\* and returns tasks of U only
StaysWith(U, o) ==
  /\ \A id \in DOMAIN tasks :
       tasks[id].user_id # U => (id \in DOMAIN o.tasks /\ o.tasks[id] = tasks[id])
  /\ \A id \in DOMAIN o.tasks \ DOMAIN tasks : o.tasks[id].user_id = U
  /\ \A id \in RespIds(o.resp) : id \in DOMAIN o.tasks /\ o.tasks[id].user_id = U

\* C3: whatever the agent calls on the tool set bound to U, with whatever
\* arguments, the rows of other owners stay as they are, a row it creates
\* is U's, and every task in the result is U's.
C3_ToolsStayWithOwner ==
  toolsess # << >> =>
    LET U == toolsess[1].user_id IN
    /\ \A q \in TableRequests : q.kind \in ToolKinds => StaysWith(U, Answer(U, 0, q))
    /\ \A id \in ReqIds, q \in ByIdRequests :
         q.kind \in ToolKinds => StaysWith(U, Answer(U, id, q))

\* the bound owner's list_tasks returned tasks while another owner has a live one
C3_Witness ==
  /\ toolsess # << >>
  /\ resp.via = "tool" /\ resp.op = "list" /\ resp.tasks # {}
  /\ \A id \in RespIds(resp) : tasks[id].user_id = toolsess[1].user_id
  /\ \E id \in DOMAIN tasks : Foreign(tasks, id, toolsess[1].user_id)

\* ------------------------------------------------------------------ C4
\* the rows that outcome o adds to the table
Created(o) == DOMAIN o.tasks \ DOMAIN tasks

\* a step keeps every row and its user_id
OwnerKept ==
  \A id \in DOMAIN tasks :
    id \in DOMAIN tasks' /\ tasks'[id].user_id = tasks[id].user_id

\* a well-formed POST /api/tasks or add_task by user creates a row of user,
\* whatever user_id the body names
OwnerIsCaller ==
  \A u \in Users, q \in TableRequests :
    q.kind \in { "create", "tool_add" } =>
      LET o == Answer(u, 0, q) IN
      /\ \A id \in Created(o) : o.tasks[id].user_id = u
      /\ (q.kind = "create" => TaskCreate(q.title, q.description)) => Created(o) # {}

\* C4: a row's user_id is the verified identity of the caller whose
\* POST /api/tasks or add_task created it, whatever user_id the body or the
\* arguments carry, and no step changes the user_id of a row.
C4_OwnerIsCreator == [][OwnerKept]_vars /\ []OwnerIsCaller

\* POST /api/tasks has just created a row, and the table holds two owners' rows
C4_Witness ==
  /\ resp.via = "http" /\ resp.op = "create" /\ resp.ok
  /\ resp.id \in DOMAIN tasks
  /\ \E id \in DOMAIN tasks : tasks[id].user_id # tasks[resp.id].user_id

\* ------------------------------------------------------------------ C5
\* C5: once a task is soft-deleted, its row stays, deleted_at stays set, and
\* no get or list answered from then on shows it.
C5_DeletedStaysHidden ==
  [][ \A id \in DOMAIN tasks :
        Deleted(tasks, id) =>
          /\ Deleted(tasks', id)
          /\ resp'.op \in { "get", "list" } => id \notin RespIds(resp')
    ]_vars

\* a list was answered while the caller's deleted task is in the table
C5_Witness ==
  /\ resp.op = "list" /\ resp.ok
  /\ \E id \in DOMAIN tasks : Deleted(tasks, id)
  /\ \E id \in DOMAIN tasks : Live(tasks, id) /\ id \in RespIds(resp)

\* ------------------------------------------------------------------ C6
\* the writes among the requests by id
WriteRequests == { q \in ByIdRequests : q.kind # "get" }

\* a step removes no row and leaves every set deleted_at as it is
RowsKept ==
  \A id \in DOMAIN tasks :
    /\ id \in DOMAIN tasks'
    /\ Deleted(tasks, id) => tasks'[id].deleted_at = tasks[id].deleted_at

\* every write on a soft-deleted task is answered not-found and changes nothing
DeletedIsNotFound ==
  \A u \in Users, id \in DOMAIN tasks :
    Deleted(tasks, id) =>
      \A q \in WriteRequests :
        LET o == Answer(u, id, q) IN
        IsNotFound(o.resp) /\ o.tasks = tasks

\* every write on a soft-deleted task fails, with not-found when it is
\* well-formed, and changes nothing
DeletedIsRefused ==
  \A u \in Users, id \in DOMAIN tasks :
    Deleted(tasks, id) =>
      \A q \in WriteRequests :
        LET o == Answer(u, id, q) IN
        /\ IF WellFormed(q) THEN IsNotFound(o.resp) ELSE IsValidationError(o.resp)
        /\ o.tasks = tasks

\* C6 (as stated): no step removes a row or changes a deleted_at that is
\* set, and a delete, update, toggle or complete_task on a soft-deleted task
\* fails with not-found and changes nothing.
C6_DeletedIsNotFound == [][RowsKept]_vars /\ []DeletedIsNotFound

\* C6 (amended): the same, except that a request rejected by validation
\* before the lookup (a PUT body outside the TaskUpdate limits, an
\* update_task call with no field) fails with the validation error
\* instead of not-found.
C6_DeletedIsFinal == [][RowsKept]_vars /\ []DeletedIsRefused

\* a write was just refused on a soft-deleted task
C6_Witness ==
  /\ resp.op \in { "delete", "update", "toggle", "complete" }
  /\ IsNotFound(resp)
  /\ Deleted(tasks, resp.id)

\* ------------------------------------------------------------------ C7
\* the tasks the claim says list(U, s) returns
Listed(db, U, st) ==
  { id \in DOMAIN db :
      /\ db[id].user_id = U
      /\ db[id].deleted_at = NoTime
      /\ (st = "all" \/ db[id].completed = (st = "completed")) }

\* the completed= parameter that stands for a status filter
AsParam(st) == IF st = "all" THEN None ELSE Some(st = "completed")

\* C7: list for owner U with filter s returns exactly U's live tasks that
\* match s and reports their number, over HTTP and through the tool; pending
\* and completed partition all; a toggle moves the task from one to the other.
C7_ListIsExact ==
  \A U \in Users :
    /\ \A st \in StatusInputs :
         LET h == list_tasks_handler(tasks, now, U, AsParam(st)).resp
             t == list_tasks_impl(tasks, now, U, PendingOf(U), st).resp
         IN /\ RespIds(h) = Listed(tasks, U, st)
            /\ h.total = Cardinality(Listed(tasks, U, st))
            /\ RespIds(t) = Listed(tasks, U, st)
            /\ t.total = Cardinality(Listed(tasks, U, st))
    /\ LET ids(db, st) == RespIds(list_tasks_handler(db, now, U, AsParam(st)).resp) IN
       /\ ids(tasks, "pending") \cup ids(tasks, "completed") = ids(tasks, "all")
       /\ ids(tasks, "pending") \cap ids(tasks, "completed") = {}
       /\ \A id \in ids(tasks, "all") :
            LET after == toggle_task_completion_handler(tasks, now, U, id).tasks IN
            /\ id \in ids(tasks, "pending") <=> id \in ids(after, "completed")
            /\ id \in ids(tasks, "completed") <=> id \in ids(after, "pending")

\* a task was just toggled to completed and its owner has a pending one too
C7_Witness ==
  /\ resp.op = "toggle" /\ resp.ok
  /\ tasks[resp.id].completed
  /\ \E id \in DOMAIN tasks :
       /\ id # resp.id
       /\ Live(tasks, id)
       /\ tasks[id].user_id = tasks[resp.id].user_id
       /\ ~tasks[id].completed
\* ------------------------------------------------------------------ C8
\* C8: every stored task has a title of 1 to 200 characters and a
\* description of at most 1000, whichever of POST, PUT, add_task and
\* update_task wrote it.
C8_StoredLengths ==
  \A id \in DOMAIN tasks :
    /\ StrLen(tasks[id].title) >= TitleMin
    /\ StrLen(tasks[id].title) <= TitleMax
    /\ StrLen(tasks[id].description) <= DescMax

\* ------------------------------------------------------------------ C9
\* C9: an update that supplies no field, by PUT or by the update_task tool,
\* fails with a validation error and leaves the task, updated_at included,
\* as it was.
C9_EmptyUpdateRejected ==
  \A id \in DOMAIN tasks :
    /\ LET o == update_task_handler(tasks, now, Owner, id, None, None, None) IN
       IsValidationError(o.resp) /\ o.tasks = tasks
    /\ LET o == update_task_impl(tasks, now, Owner, PendingOf(Owner), id,
                                 None, None, None) IN
       IsValidationError(o.resp) /\ o.tasks = tasks

\* ----------------------------------------------------------------- C10
\* what a successful update of task id may change: the fields named in
\* supplied, and updated_at upwards
Framed(o, id, supplied) ==
  /\ DOMAIN o.tasks = DOMAIN tasks
  /\ \A other \in DOMAIN tasks \ {id} : o.tasks[other] = tasks[other]
  /\ \A f \in { "title", "description", "completed", "due_date",
                "user_id", "created_at", "deleted_at" } \ supplied :
       o.tasks[id][f] = tasks[id][f]
  /\ o.tasks[id].updated_at >= tasks[id].updated_at

\* the names of the fields among title, description, completed, due_date
\* that a request supplies
Supplied(title, description, completed, due_date) ==
  { f \in { "title", "description", "completed", "due_date" } :
      \/ f = "title" /\ title # None
      \/ f = "description" /\ description # None
      \/ f = "completed" /\ completed # None
      \/ f = "due_date" /\ due_date # None }

\* C10: a successful update, by PUT or by the update_task tool, overwrites
\* only the fields it supplies; the other fields, user_id, created_at,
\* deleted_at and every other task stay, and updated_at does not decrease.
C10_UpdateFrame ==
  \A id \in DOMAIN tasks :
    /\ \A title \in Opt(UpdTitles), completed \in Opt(BOOLEAN) :
         LET o == update_task_handler(tasks, now, Owner, id, title, None, completed) IN
         o.resp.ok => Framed(o, id, Supplied(title, None, completed, None))
    /\ \A title \in Opt(UpdTitles), due_date \in Opt(DateInputs) :
         LET o == update_task_impl(tasks, now, Owner, PendingOf(Owner), id,
                                   title, None, due_date) IN
         o.resp.ok => Framed(o, id, Supplied(title, None, None, due_date))
\* ----------------------------------------------------------------- C11
\* requests of SpecComplete: one owner completes, toggles and completes
\* again while the clock advances
NextComplete ==
  \/ Tick
  \/ create_task(Owner, PlainTitle, EmptyStr, Owner, now)
  \/ \E id \in TaskIds : toggle_task_completion(Owner, id)
  \/ \E id \in ReqIds : complete_task(id)
  \/ \E id \in TaskIds : delete_task_tool(id, now)
  \/ create_tools_for_user(Owner)
  \/ close_session

SpecComplete == Init /\ [][NextComplete]_vars

\* C11: complete_task on a task of the caller that is already completed
\* returns success with the 'already completed' message and changes no
\* field; a second complete_task, at the same or a later clock reading,
\* leaves the rows as the first left them.
C11_CompleteIdempotent ==
  \A id \in DOMAIN tasks :
    (Live(tasks, id) /\ tasks[id].user_id = Owner) =>
      LET once == complete_task_impl(tasks, now, Owner, PendingOf(Owner), id) IN
      /\ tasks[id].completed =>
           /\ once.resp.ok
           /\ once.resp.message = "already completed"
           /\ once.tasks = tasks
      /\ \A t2 \in Later(once.now) :
           LET twice == complete_task_impl(once.tasks, t2, Owner, once.pending, id) IN
           twice.resp.ok /\ twice.tasks = once.tasks

\* complete_task has just answered 'already completed' for a task completed
\* at an earlier clock reading
C11_Witness ==
  /\ resp.via = "tool" /\ resp.op = "complete" /\ resp.ok
  /\ resp.message = "already completed"
  /\ tasks[resp.id].completed
  /\ tasks[resp.id].updated_at < now

\* ----------------------------------------------------------------- C12
\* the task just created, fetched at once by its owner, against what was sent
RoundTrip(o, title, description) ==
  o.resp.ok =>
    LET fetched == get_task_handler(o.tasks, o.now, Owner, o.resp.id) IN
    /\ fetched.resp.ok
    /\ \A t \in fetched.resp.tasks :
         /\ t.title = title
         /\ t.description = description
         /\ t.completed = FALSE
         /\ t.created_at = t.updated_at

\* C12: a task created with title t and description d, through POST
\* /api/tasks or through add_task, and fetched immediately, has exactly t
\* and d, completed = false and created_at equal to updated_at.
C12_RoundTrip ==
  \A title \in TitleInputs, description \in DescInputs, t2 \in Later(now) :
    /\ RoundTrip(create_task_handler(tasks, now, Owner, title, description, Owner, t2),
                 title, description)
    /\ RoundTrip(add_task_impl(tasks, now, Owner, PendingOf(Owner),
                               title, description, None, t2),
                 title, description)

\* ------------------------------------------------------------ the sign-in
\* session table and the bearer check in front of every endpoint
Tokens == { "tok1", "tok2" }
Expiries == 0 .. MaxClock
\* the tasks SpecAuth lets the signed-in callers create
MaxAuthTasks == 1

\* a row of "session": "userId" and "expiresAt" (NOT NULL in the schema)
SessionRow(userId, expiresAt) == [ userId |-> userId, expiresAt |-> expiresAt ]

\* the sign-in service writes a row for a new token; "token" is UNIQUE
sign_in(token, user, expires) ==
  /\ token \notin DOMAIN sessions
  /\ sessions' = [ t \in DOMAIN sessions \cup {token} |->
                     IF t = token THEN SessionRow(user, expires) ELSE sessions[t] ]
  /\ UNCHANGED << tasks, now, toolsess, resp, conversations, messages, console, inflight >>

\* raise AuthenticationError(message, code)
AuthenticationError(code, message) ==
  [ ok |-> FALSE, user_id |-> "", code |-> code, message |-> message ]

\* a faulty verify_session_token: the "expiresAt" column is not looked at
verify_session_token_no_expiry(tbl, clk, token) ==
  IF token \notin DOMAIN tbl
  THEN AuthenticationError("INVALID_SESSION", "Invalid session. Please sign in again.")
  ELSE [ ok |-> TRUE, user_id |-> tbl[token].userId, code |-> "", message |-> "" ]

\* verify_session_token(token, db): the row of the token, then its expiry
\* against a reading of the clock ("if expires_at < now")
verify_session_token(tbl, clk, token) ==
  IF token \notin DOMAIN tbl
  THEN AuthenticationError("INVALID_SESSION", "Invalid session. Please sign in again.")
  ELSE IF tbl[token].expiresAt # NoTime /\ tbl[token].expiresAt < clk
  THEN AuthenticationError("EXPIRED_SESSION", "Session expired. Please sign in again.")
  ELSE [ ok |-> TRUE, user_id |-> tbl[token].userId, code |-> "", message |-> "" ]

\* get_current_user: HTTPBearer() refuses a request without credentials,
\* verify_session_token decides the rest
get_current_user(tbl, clk, credentials) ==
  IF credentials = None
  THEN AuthenticationError("HTTP_401", "Not authenticated")
  ELSE verify_session_token(tbl, clk, credentials[1])

\* the routers main.py includes in the application
IncludedRouters == { "tasks" }

\* the router that declares the endpoint of a request
RouterOf(q) == IF q.kind \in { "chat", "messages" } THEN "chat" ELSE "tasks"

\* the requests of SpecAuth: task endpoints, POST /api/chat and
\* GET /api/conversations/{id}/messages
AppRequests ==
  { [ kind |-> k ] : k \in { "get", "chat", "messages" } }
  \cup { [ kind |-> "list", completed |-> None ] }
  \cup { [ kind |-> "create", title |-> PlainTitle, description |-> EmptyStr,
           body_user_id |-> Owner ] }

\* the application's answer to a request: the path is matched against the
\* included routers, the dependencies run, then the handler
app(tbl, credentials, id, q) ==
  IF RouterOf(q) \notin IncludedRouters
  THEN Outcome(tasks, now,
         Response("http", q.kind, id, FALSE, 404, "", "Not Found", {}, {}))
  ELSE LET a == get_current_user(tbl, now, credentials) IN
       IF ~a.ok
       THEN Outcome(tasks, now,
              Response("http", q.kind, id, FALSE, 401, a.code, a.message, {}, {}))
       ELSE Answer(a.user_id, id, q)

request(credentials, id, q) ==
  LET o == app(sessions, credentials, id, q)
  IN /\ DOMAIN o.tasks \subseteq 1 .. MaxAuthTasks
     /\ Served(o)

NextAuth ==
  \/ Tick
  \/ \E token \in Tokens, user \in Users, expires \in Expiries :
       sign_in(token, user, expires)
  \/ \E credentials \in Opt(Tokens), id \in 1 .. MaxAuthTasks, q \in AppRequests :
       request(credentials, id, q)

SpecAuth == Init /\ [][NextAuth]_vars

\* ----------------------------------------------------------------- C13
\* C13: verify_session_token fails with INVALID_SESSION for a token that is
\* not in the session table, fails with EXPIRED_SESSION for a token whose
\* expiry is before the current time, and otherwise returns the user id of
\* that token's row; it gives no identity for an absent or expired token and
\* never the identity of another session.
C13_VerifySessionToken ==
  \A token \in Tokens :
    LET v == verify_session_token(sessions, now, token) IN
    /\ token \notin DOMAIN sessions => ~v.ok /\ v.code = "INVALID_SESSION"
    /\ (token \in DOMAIN sessions /\ sessions[token].expiresAt < now) =>
         ~v.ok /\ v.code = "EXPIRED_SESSION"
    /\ (token \in DOMAIN sessions /\ sessions[token].expiresAt >= now) =>
         v.ok /\ v.user_id = sessions[token].userId
    /\ v.ok => token \in DOMAIN sessions /\ v.user_id = sessions[token].userId

\* a request was just refused with EXPIRED_SESSION while the table holds an
\* expired session of one user and a current session of another
C13_Witness ==
  /\ resp.status = 401 /\ resp.code = "EXPIRED_SESSION"
  /\ \E t1 \in DOMAIN sessions, t2 \in DOMAIN sessions :
       /\ sessions[t1].expiresAt < now /\ sessions[t2].expiresAt >= now
       /\ sessions[t1].userId # sessions[t2].userId

\* ----------------------------------------------------------------- C14
\* C14: a request to a task endpoint or a chat endpoint whose bearer token
\* is missing, not in the session table or expired is answered 401 and
\* leaves every row as it was: no handler runs for it.
C14_UnauthenticatedIs401 ==
  \A credentials \in Opt(Tokens), id \in 1 .. MaxAuthTasks, q \in AppRequests :
    ~get_current_user(sessions, now, credentials).ok =>
      LET o == app(sessions, credentials, id, q) IN
      /\ o.resp.status = 401
      /\ ~o.resp.ok
      /\ o.tasks = tasks

\* ------------------------------------------------------- the chat endpoints
\* The handlers of routes/chat.py, called with get_current_user's result.
\* One chat turn is one handler run; what the agent does during
\* "await run_agent(...)" is an input of the turn: the tool calls it makes,
\* in order, and whether the run then returns, times out or raises.
MaxConversations == 1
MaxMessages == 3
\* the agent's tools of SpecChat work on the first task only
ChatTaskIds == { 1 }

MessageMin == 1
MessageMax == 2000
LimitMin == 1
LimitMax == 100
LimitDefault == 50

ConversationIds == 1 .. MaxConversations
PlainMessage == Run("h", 1)
MessageInputs == { EmptyStr, Run(" ", 1), PlainMessage, Run("h", MessageMax + 1) }

\* Conversation(user_id=...) with its field defaults
Conversation(user_id, t1, t2) ==
  [ user_id |-> user_id, created_at |-> t1, updated_at |-> t2,
    deleted_at |-> NoTime ]

\* Message(...) with its field defaults
Message(conversation_id, user_id, role, content, tool_calls, t) ==
  [ conversation_id |-> conversation_id, user_id |-> user_id, role |-> role,
    content |-> content, tool_calls |-> tool_calls, created_at |-> t ]

\* ChatRequest: message 1..2000 characters
ChatRequest(message) ==
  StrLen(message) >= MessageMin /\ StrLen(message) <= MessageMax

\* a faulty create_conversation: the row is not given the caller as owner
create_conversation_unowned(convs, user_id, clk) ==
  Insert(convs, NewId(convs), Conversation("", clk, clk))

\* create_conversation: session.add(Conversation(user_id=user_id)); commit
create_conversation(convs, user_id, clk) ==
  Insert(convs, NewId(convs), Conversation(user_id, clk, clk))

\* a faulty get_conversation: Conversation.user_id is not compared
get_conversation_any_owner(convs, conversation_id, user_id) ==
  IF /\ conversation_id \in DOMAIN convs
     /\ convs[conversation_id].deleted_at = NoTime
  THEN Some(conversation_id) ELSE None

\* get_conversation: one select on id, owner and deleted_at IS NULL
get_conversation(convs, conversation_id, user_id) ==
  IF /\ conversation_id \in DOMAIN convs
     /\ convs[conversation_id].user_id = user_id
     /\ convs[conversation_id].deleted_at = NoTime
  THEN Some(conversation_id) ELSE None

\* a faulty save_message: the latest row is written over
save_message_overwrites(msgs, conversation_id, user_id, role, content, tool_calls, clk) ==
  LET id == IF DOMAIN msgs = {} THEN 1 ELSE Max(DOMAIN msgs) IN
  Insert(msgs, id, Message(conversation_id, user_id, role, content, tool_calls, clk))

\* save_message: session.add(Message(...)); session.commit()
save_message(msgs, conversation_id, user_id, role, content, tool_calls, clk) ==
  Insert(msgs, NewId(msgs),
         Message(conversation_id, user_id, role, content, tool_calls, clk))

\* the tool calls an agent run may make in SpecChat
ChatCalls ==
  { [ tool |-> "add_task", task_id |-> 0 ] }
  \cup { [ tool |-> t, task_id |-> id ] :
           t \in { "complete_task", "delete_task" }, id \in ChatTaskIds }

\* what the agent does in one run of SpecChat: no tool call or one, then the
\* run returns, times out or raises
AgentRuns ==
  { [ calls |-> c, outcome |-> o ] :
      c \in { << >> } \cup { << call >> : call \in ChatCalls },
      o \in { "ok", "timeout", "error" } }

\* one call of a bound tool on the turn's ORM session
ToolStep(db, clk, user_id, pending, call) ==
  CASE call.tool = "add_task" ->
         add_task_impl(db, clk, user_id, pending, PlainTitle, EmptyStr, None, clk)
    [] call.tool = "complete_task" ->
         complete_task_impl(db, clk, user_id, pending, call.task_id)
    [] call.tool = "delete_task" ->
         delete_task_impl(db, clk, user_id, pending, call.task_id, clk)
    [] call.tool = "update_task" ->
         update_task_impl(db, clk, user_id, pending, call.task_id,
                          call.title, call.description, call.due_date)

\* the tool calls of a run, in order; tool_calls is what _extract_tool_calls
\* pairs up afterwards
RECURSIVE RunTools(_, _, _, _, _)
RunTools(db, clk, user_id, pending, calls) ==
  IF calls = << >>
  THEN [ tasks |-> db, now |-> clk, pending |-> pending, tool_calls |-> << >> ]
  ELSE LET o == ToolStep(db, clk, user_id, pending, Head(calls))
           rest == RunTools(o.tasks, o.now, user_id, o.pending, Tail(calls))
       IN [ rest EXCEPT !.tool_calls =
              << [ tool |-> Head(calls).tool, args |-> Head(calls).task_id,
                   result |-> o.resp.ok ] >> \o @ ]

\* What a chat handler leaves behind; agent tells whether run_agent was called
ChatOutcome(convs, msgs, db, clk, r, agent) ==
  [ conversations |-> convs, messages |-> msgs, tasks |-> db, now |-> clk,
    resp |-> r, agent |-> agent ]

ConversationNotFound(op, id) ==
  Response("http", op, id, FALSE, 404, "CONVERSATION_NOT_FOUND",
           "Conversation not found.", {}, {})

\* a faulty "except": the failure of the agent surfaces as a plain 500
AIServiceUnavailable_500(id, outcome) ==
  Response("http", "chat", id, FALSE, 500, "INTERNAL_ERROR",
           "An unexpected error occurred", {}, {})

\* "except AIServiceError": HTTPException(503) with the error's text
AIServiceUnavailable(id, outcome) ==
  Response("http", "chat", id, FALSE, 503, "AI_SERVICE_UNAVAILABLE",
           IF outcome = "timeout" THEN "AI service timed out. Please try again."
           ELSE "AI service error", {}, {})

\* POST /api/chat
send_chat_message_handler(convs, msgs, db, clk, user, conversation_id, message, run) ==
  IF ~ChatRequest(message)
  THEN ChatOutcome(convs, msgs, db, clk, ValidationError("chat", 0), FALSE)
  ELSE IF strip(message) = EmptyStr
  THEN ChatOutcome(convs, msgs, db, clk,
         Response("http", "chat", 0, FALSE, 422, "VALIDATION_ERROR",
                  "Message cannot be empty.", {}, {}), FALSE)
  ELSE IF conversation_id # None /\ get_conversation(convs, conversation_id[1], user) = None
  THEN ChatOutcome(convs, msgs, db, clk,
         ConversationNotFound("chat", conversation_id[1]), FALSE)
  ELSE LET id == IF conversation_id # None THEN conversation_id[1] ELSE NewId(convs)
           convs1 == IF conversation_id # None THEN convs
                     ELSE create_conversation(convs, user, clk)
           msgs1 == save_message(msgs, id, user, "user", strip(message), << >>, clk)
           ran == RunTools(db, clk, user, NoPending, run.calls)
       IN
       IF run.outcome # "ok"
       THEN \* AIServiceError: nothing more is committed, the session closes
            ChatOutcome(convs1, msgs1, ran.tasks, ran.now,
                        AIServiceUnavailable(id, run.outcome), TRUE)
       ELSE LET msgs2 == save_message(msgs1, id, user, "assistant", "reply",
                                      ran.tool_calls, ran.now)
                convs2 == [ convs1 EXCEPT ![id].updated_at = ran.now ]
            IN ChatOutcome(convs2, msgs2, SessionView(ran.tasks, ran.pending), ran.now,
                 Response("http", "chat", id, TRUE, 200, "", "",
                          { [ conversation_id |-> id, response |-> "reply",
                              tool_calls |-> ran.tool_calls ] }, {}), TRUE)

ChatServed(o) ==
  /\ conversations' = o.conversations
  /\ messages' = o.messages
  /\ tasks' = o.tasks
  /\ now' = o.now
  /\ resp' = o.resp
  /\ UNCHANGED << toolsess, sessions, console, inflight >>

send_chat_message(user, conversation_id, message, run) ==
  LET o == send_chat_message_handler(conversations, messages, tasks, now, user,
                                     conversation_id, message, run)
  IN /\ DOMAIN o.conversations \subseteq ConversationIds
     /\ DOMAIN o.messages \subseteq 1 .. MaxMessages
     /\ DOMAIN o.tasks \subseteq ChatTaskIds
     /\ ChatServed(o)

\* the rows of a conversation in an order the database may return them for
\* ORDER BY created_at ASC: any order that never puts a later row first
RECURSIVE Orderings(_, _)
Orderings(msgs, ids) ==
  IF ids = {} THEN { << >> }
  ELSE UNION { { << first >> \o s : s \in Orderings(msgs, ids \ {first}) } :
               first \in { i \in ids :
                            \A j \in ids : msgs[i].created_at <= msgs[j].created_at } }

\* load_messages: the results the query may give, as sequences of message ids:
\* select ... where conversation_id ... order_by(created_at.asc()).limit(limit)
load_messages(msgs, conversation_id, limit) ==
  { SubSeq(s, 1, IF limit < Len(s) THEN limit ELSE Len(s)) :
      s \in Orderings(msgs, { i \in DOMAIN msgs :
                                msgs[i].conversation_id = conversation_id }) }

\* MessageResponse(id, role, content, tool_calls, created_at)
MessageResponse(id, m) ==
  [ id |-> id, role |-> m.role, content |-> m.content,
    tool_calls |-> m.tool_calls, created_at |-> m.created_at ]

LimitInputs == { None, Some(LimitMin - 1), Some(LimitMin), Some(LimitMin + 1),
                 Some(LimitMax), Some(LimitMax + 1) }

\* limit: int = Query(default=50, ge=1, le=100)
LimitQuery(limit) == limit = None \/ (limit[1] >= LimitMin /\ limit[1] <= LimitMax)

LimitUsed(limit) == IF limit = None THEN LimitDefault ELSE limit[1]

\* GET /api/conversations/{conversation_id}/messages; history is what
\* load_messages returned
get_conversation_messages_handler(convs, msgs, db, clk, user, conversation_id, limit, history) ==
  IF ~LimitQuery(limit)
  THEN ChatOutcome(convs, msgs, db, clk, ValidationError("messages", conversation_id),
                   FALSE)
  ELSE IF get_conversation(convs, conversation_id, user) = None
  THEN ChatOutcome(convs, msgs, db, clk,
                   ConversationNotFound("messages", conversation_id), FALSE)
  ELSE ChatOutcome(convs, msgs, db, clk,
         Response("http", "messages", conversation_id, TRUE, 200, "", "",
                  { [ i \in DOMAIN history |->
                        MessageResponse(history[i], msgs[history[i]]) ] }, {}),
         FALSE)

get_conversation_messages(user, conversation_id, limit) ==
  \E history \in IF /\ LimitQuery(limit)
                    /\ get_conversation(conversations, conversation_id, user) # None
                 THEN load_messages(messages, conversation_id, LimitUsed(limit))
                 ELSE { << >> } :   \* the query is not reached
    ChatServed(get_conversation_messages_handler(conversations, messages, tasks, now,
                 user, conversation_id, limit, history))

\* SpecChat: two owners, chat turns with every agent run, history reads, all
\* within one clock reading
NoRun == [ calls |-> << >>, outcome |-> "ok" ]

NextChat ==
  \/ \E user \in Users, conversation_id \in Opt(1 .. (MaxConversations + 1)),
        run \in AgentRuns :
       send_chat_message(user, conversation_id, PlainMessage, run)
  \/ \E user \in Users, conversation_id \in Opt(1 .. (MaxConversations + 1)) :
       send_chat_message(user, conversation_id, Run(" ", 1), NoRun)
  \/ \E user \in Users, conversation_id \in 1 .. (MaxConversations + 1),
        limit \in { Some(LimitMin), Some(LimitMax + 1) } :
       get_conversation_messages(user, conversation_id, limit)

SpecChat == Init /\ [][NextChat]_vars

\* ----------------------------------------------------------------- C15
\* the rows a handler run added to the messages table, oldest first
Added(msgs, o) ==
  [ i \in 1 .. (Cardinality(DOMAIN o.messages) - Cardinality(DOMAIN msgs)) |->
      o.messages[NewId(msgs) + i - 1] ]

\* every row that was there is still there, as it was
MessagesKept(msgs, o) ==
  \A i \in DOMAIN msgs : i \in DOMAIN o.messages /\ o.messages[i] = msgs[i]

\* the run added a user message and then an assistant message, both of
\* conversation id and of the caller, and nothing else
TurnAdded(msgs, o, id, user) ==
  /\ MessagesKept(msgs, o)
  /\ Len(Added(msgs, o)) = 2
  /\ Added(msgs, o)[1].role = "user"
  /\ Added(msgs, o)[2].role = "assistant"
  /\ \A i \in 1 .. 2 :
       /\ Added(msgs, o)[i].conversation_id = id
       /\ Added(msgs, o)[i].user_id = user

\* the conversations a caller may name in a chat request and own
OwnConversations(user) ==
  { id \in DOMAIN conversations :
      conversations[id].user_id = user /\ conversations[id].deleted_at = NoTime }

Reachable(user) == { None } \cup { Some(id) : id \in OwnConversations(user) }

C17_FailedTurnLeavesTasks ==
  \A user \in Users, run \in AgentRuns :
  \A conversation_id \in Reachable(user) :
    LET o == send_chat_message_handler(conversations, messages, tasks, now,
                                       user, conversation_id, PlainMessage, run)
    IN o.resp.status = 503 => o.tasks = tasks

\* ----------------------------------------------------------------- C18
\* the requests that name a conversation by id
ConversationRequests ==
  { [ kind |-> "chat", message |-> m, run |-> r ] :
      m \in MessageInputs, r \in { x \in AgentRuns : x.outcome = "ok" } }
  \cup { [ kind |-> "messages", limit |-> l ] : l \in LimitInputs }

\* the request passes the validation that precedes get_conversation
ChatWellFormed(q) ==
  CASE q.kind = "chat" -> ChatRequest(q.message) /\ strip(q.message) # EmptyStr
    [] q.kind = "messages" -> LimitQuery(q.limit)

\* the outcome of request q by user naming conversation id, on the
\* conversations table convs
ChatAnswer(convs, user, id, q) ==
  CASE q.kind = "chat" ->
         send_chat_message_handler(convs, messages, tasks, now, user, Some(id),
                                   q.message, q.run)
    [] q.kind = "messages" ->
         get_conversation_messages_handler(convs, messages, tasks, now, user, id,
                                           q.limit, << >>)

MissingConversation == MaxConversations + 1

\* The conversations user cannot use, each with the table it is looked up
\* in: one of another owner, one of the caller's own once its deleted_at is
\* set (no endpoint sets it; the row is given that value here), and an id
\* no row has.
Unusable(user) ==
  { [ convs |-> conversations, id |-> id ] :
      id \in { c \in DOMAIN conversations : conversations[c].user_id # user } }
  \cup { [ convs |-> [ conversations EXCEPT ![id].deleted_at = now ], id |-> id ] :
           id \in OwnConversations(user) }
  \cup { [ convs |-> conversations, id |-> MissingConversation ] }

IsConversationNotFound(r) ==
  /\ ~r.ok /\ r.status = 404
  /\ r.code = "CONVERSATION_NOT_FOUND"
  /\ r.message = "Conversation not found."

\* what the caller can see of two answers is the same
SameAnswer(r1, r2) ==
  /\ r1.ok = r2.ok /\ r1.status = r2.status /\ r1.code = r2.code
  /\ r1.message = r2.message /\ r1.tasks = r2.tasks

\* the request ran no agent and wrote nothing
Refused(o, convs) ==
  /\ ~o.resp.ok
  /\ ~o.agent
  /\ o.conversations = convs
  /\ o.messages = messages
  /\ o.tasks = tasks

C19_MessagesAppendOnly ==
  [][ \A i \in DOMAIN messages :
        i \in DOMAIN messages' /\ messages'[i] = messages[i] ]_vars

\* an assistant message with a tool-call record is followed by the user
\* message of a later turn that failed
C19_Witness ==
  /\ resp.op = "chat" /\ resp.status = 503
  /\ \E i \in DOMAIN messages :
       /\ messages[i].role = "assistant" /\ messages[i].tool_calls # << >>
       /\ i < Max(DOMAIN messages)

\* ----------------------------------------------------------------- C20
\* SpecHistory: one owner's turns, with and without a failing agent, as the
\* clock advances, and history reads with every kind of limit
NextHistory ==
  \/ Tick
  \/ \E conversation_id \in Opt(ConversationIds), outcome \in { "ok", "timeout" } :
       send_chat_message(Owner, conversation_id, PlainMessage,
                         [ calls |-> << >>, outcome |-> outcome ])
  \/ \E conversation_id \in ConversationIds, limit \in LimitInputs :
       get_conversation_messages(Owner, conversation_id, limit)

SpecHistory == Init /\ [][NextHistory]_vars

\* C20: load_messages(conversation, limit) returns at most limit messages,
\* all of that conversation, in ascending created_at order with equal
\* created_at values in id order; the messages endpoint accepts a limit only
\* in 1..100 and uses 50 when none is given.
C20_LoadHistory ==
  /\ \A c \in DOMAIN conversations, limit \in { LimitMin, LimitMin + 1, LimitDefault } :
       \A h \in load_messages(messages, c, limit) :
         /\ Len(h) <= limit
         /\ \A i \in DOMAIN h : messages[h[i]].conversation_id = c
         /\ \A i, j \in DOMAIN h :
              i < j =>
                \/ messages[h[i]].created_at < messages[h[j]].created_at
                \/ /\ messages[h[i]].created_at = messages[h[j]].created_at
                   /\ h[i] < h[j]
  /\ \A c \in OwnConversations(Owner), limit \in LimitInputs :
       LET o == get_conversation_messages_handler(conversations, messages, tasks,
                  now, Owner, c, limit, << >>)
       IN /\ o.resp.ok <=> (limit = None \/ limit[1] \in LimitMin .. LimitMax)
          /\ ~o.resp.ok => o.resp.status = 422
          /\ limit = None => LimitUsed(limit) = LimitDefault

\* ----------------------------------------------------------------- C21
\* the answer carries a security-audit event naming the caller, the resource
\* and its actual owner
Audited(r, user, type, id, owner) ==
  \E e \in r.audit :
    /\ e.attempting_user_id = user
    /\ e.resource_type = type
    /\ e.resource_id = id
    /\ e.actual_owner_id = owner

\* C21: every lookup by id that finds a live resource of another owner emits
\* a security-audit event with the attempting identity, the resource type
\* and id, the actual owner and the action, along with the not-found error:
\* for the HTTP task operations, for the complete_task, delete_task and
\* update_task tools, and for conversation lookups.
C21_CrossOwnerAudited ==
  \A A \in Users :
    /\ \A id \in DOMAIN tasks :
         Foreign(tasks, id, A) =>
           \A q \in { x \in ByIdRequests : WellFormed(x) } :
             Audited(Answer(A, id, q).resp, A, "task", id, tasks[id].user_id)
    /\ \A id \in DOMAIN conversations :
         (conversations[id].user_id # A /\ conversations[id].deleted_at = NoTime) =>
           \A q \in { x \in ConversationRequests : ChatWellFormed(x) } :
             Audited(ChatAnswer(conversations, A, id, q).resp, A, "conversation",
                     id, conversations[id].user_id)

\* ----------------------------------------------------------------- C22
\* C22: once a chat request has returned, with success or with an error, the
\* updated_at of every conversation is not earlier than the created_at of
\* any of its messages.
C22_UpdatedAtCoversMessages ==
  \A i \in DOMAIN messages :
    conversations[messages[i].conversation_id].updated_at >= messages[i].created_at

\* ------------------------------------------------- console: TaskStorage
\* the ids one storage hands out in a bounded run
MaxIssued == 3

\* src/models.py: the console Task and the Result of an operation
ConsoleTask(id, title, description, completed, t1, t2) ==
  [ id |-> id, title |-> title, description |-> description,
    completed |-> completed, created_at |-> t1, updated_at |-> t2 ]

Result(success, message, data) ==
  [ success |-> success, message |-> message, data |-> data ]

StorageOutcome(st, r) == [ storage |-> st, result |-> r ]

StorageNotFound(st) ==
  StorageOutcome(st, Result(FALSE, "Error: Task not found", None))

\* a faulty add: the id is one more than the largest stored id
storage_add_after_largest(st, clk, title, description) ==
  LET id == IF DOMAIN st.tasks = {} THEN 1 ELSE Max(DOMAIN st.tasks) + 1
      task == ConsoleTask(id, title, description, FALSE, clk, clk)
  IN  StorageOutcome(
        [ tasks |-> [ k \in DOMAIN st.tasks \cup {id} |->
                        IF k = id THEN task ELSE st.tasks[k] ],
          next_id |-> id + 1 ],
        Result(TRUE, "added", Some(task)))

\* TaskStorage.add
storage_add(st, clk, title, description) ==
  LET task == ConsoleTask(st.next_id, title, description, FALSE, clk, clk)
  IN  StorageOutcome(
        [ tasks |-> [ k \in DOMAIN st.tasks \cup {st.next_id} |->
                        IF k = st.next_id THEN task ELSE st.tasks[k] ],
          next_id |-> st.next_id + 1 ],
        Result(TRUE, "added", Some(task)))

\* TaskStorage.get
storage_get(st, task_id) ==
  IF task_id \in DOMAIN st.tasks THEN Some(st.tasks[task_id]) ELSE None

\* TaskStorage.update: description None keeps the stored one
storage_update(st, clk, task_id, title, description) ==
  IF task_id \notin DOMAIN st.tasks THEN StorageNotFound(st)
  ELSE LET old == st.tasks[task_id]
           task == [ old EXCEPT !.title = title,
                                !.description = IF description = None THEN @
                                                ELSE description[1],
                                !.updated_at = clk ]
       IN  StorageOutcome([ st EXCEPT !.tasks[task_id] = task ],
                          Result(TRUE, "updated", Some(task)))

\* TaskStorage.delete: the entry is removed, the counter is not touched
storage_delete(st, task_id) ==
  IF task_id \notin DOMAIN st.tasks THEN StorageNotFound(st)
  ELSE StorageOutcome(
         [ st EXCEPT !.tasks = [ k \in DOMAIN st.tasks \ {task_id} |-> st.tasks[k] ] ],
         Result(TRUE, "deleted", Some(st.tasks[task_id])))

\* TaskStorage.toggle_complete
storage_toggle_complete(st, clk, task_id) ==
  IF task_id \notin DOMAIN st.tasks THEN StorageNotFound(st)
  ELSE LET old == st.tasks[task_id]
           task == [ old EXCEPT !.completed = ~ @, !.updated_at = clk ]
       IN  StorageOutcome([ st EXCEPT !.tasks[task_id] = task ],
                          Result(TRUE, IF task.completed THEN "complete" ELSE "pending",
                                 Some(task)))

\* an operation of the storage has returned; an add has issued an id
Stored(o, ids) ==
  /\ storage' = o.storage
  /\ issued' = issued \o ids
  /\ UNCHANGED << tasks, now, toolsess, resp, chat, menu, inflight >>

StorageIds == 1 .. MaxIssued + 1

TaskStorage_add(title, description) ==
  /\ storage.next_id <= MaxIssued
  /\ LET o == storage_add(storage, now, title, description)
     IN  Stored(o, << o.result.data[1].id >>)

TaskStorage_update(task_id, title, description) ==
  Stored(storage_update(storage, now, task_id, title, description), << >>)

TaskStorage_delete(task_id) ==
  Stored(storage_delete(storage, task_id), << >>)

TaskStorage_toggle_complete(task_id) ==
  Stored(storage_toggle_complete(storage, now, task_id), << >>)

NextStorage ==
  \/ Tick
  \/ TaskStorage_add(PlainTitle, EmptyStr)
  \/ \E id \in StorageIds, d \in { None, Some(Run("d", 1)) } :
       TaskStorage_update(id, Run("c", 1), d)
  \/ \E id \in StorageIds : TaskStorage_delete(id)
  \/ \E id \in StorageIds : TaskStorage_toggle_complete(id)

SpecStorage == Init /\ [][NextStorage]_vars

\* ----------------------------------------------------------------- C23
\* C23: the ids TaskStorage.add returns are 1, 2, 3, ... in this order, so
\* strictly increasing and never reused; after any sequence of add, update,
\* delete and toggle_complete the counter _next_id is greater than every id
\* ever issued, those of deleted tasks included, and every stored task sits
\* under its own id, which was issued, so stored ids are distinct.
C23_IdsNeverReused ==
  /\ \A i \in DOMAIN issued : issued[i] = i
  /\ \A i \in DOMAIN issued : issued[i] < storage.next_id
  /\ \A k \in DOMAIN storage.tasks :
       /\ storage.tasks[k].id = k
       /\ \E i \in DOMAIN issued : issued[i] = k
  /\ \A j, k \in DOMAIN storage.tasks :
       storage.tasks[j].id = storage.tasks[k].id => j = k

\* an id was issued after the task with the largest id had been deleted
C23_Witness ==
  /\ Len(issued) = MaxIssued
  /\ DOMAIN storage.tasks = { 1, MaxIssued }
  /\ storage.tasks[1].completed

\* ----------------------------------------------------------------- C24
\* the update_task calls an agent can make on the tasks of the chat model
UpdateCalls ==
  { [ tool |-> "update_task", task_id |-> id, title |-> t, description |-> d,
      due_date |-> dd ] :
      id \in TaskIds,
      t \in { None, Some(Run("z", 1)) },
      d \in { None, Some(Run("y", 1)) },
      dd \in { None, Some("2026-03-15"), Some("not-a-date") } }

\* the tool call as the first call on a turn's fresh session
UpdateResult(user, call) == ToolStep(tasks, now, user, NoPending, call).resp

\* a chat turn of user whose agent makes this one call and then replies
UpdateTurn(user, conversation_id, call) ==
  send_chat_message_handler(conversations, messages, tasks, now, user,
                            conversation_id, PlainMessage,
                            [ calls |-> << call >>, outcome |-> "ok" ])

\* C24: when an update_task call of a chat turn returns VALIDATION_ERROR or
\* TASK_NOT_FOUND, the tasks table after the whole turn (the assistant
\* message saved, the conversation bumped, both committed on the session the
\* tool used) is the table the turn started from.
C24_FailedUpdateChangesNothing ==
  \A user \in Users :
    \A conversation_id \in { None } \cup { Some(c) : c \in OwnConversations(user) } :
      \A call \in UpdateCalls :
        UpdateResult(user, call).code \in { "VALIDATION_ERROR", "TASK_NOT_FOUND" }
          => UpdateTurn(user, conversation_id, call).tasks = tasks

\* ----------------------------------------------------------------- C25
\* the requests of a long conversation
MaxLongMessages == 51

\* the histories a chat turn may hand to the agent: load_messages with its
\* default limit, right after the user message was saved and before the
\* agent runs.  A run that times out commits nothing more, so its outcome
\* holds the table the history was loaded from.
HistoryHanded(user, conversation_id) ==
  LET o == send_chat_message_handler(conversations, messages, tasks, now, user,
                                     conversation_id, PlainMessage,
                                     [ calls |-> << >>, outcome |-> "timeout" ])
  IN  [ messages |-> o.messages, conversation_id |-> o.resp.id,
        history |-> load_messages(o.messages, o.resp.id, LimitDefault) ]

\* every stored message was written at an earlier clock reading: the next
\* message will not share its created_at with any other
FreshReading == \A i \in DOMAIN messages : messages[i].created_at < now

\* a chat turn while the agent service is down, one request per clock reading
long_turn(user, conversation_id) ==
  /\ FreshReading
  /\ LET o == send_chat_message_handler(conversations, messages, tasks, now, user,
                                        conversation_id, PlainMessage,
                                        [ calls |-> << >>, outcome |-> "timeout" ])
     IN /\ DOMAIN o.conversations \subseteq ConversationIds
        /\ DOMAIN o.messages \subseteq 1 .. MaxLongMessages
        /\ ChatServed(o)

\* time passes after a request was served
Elapse ==
  /\ \E i \in DOMAIN messages : messages[i].created_at = now
  /\ now' = now + 1
  /\ UNCHANGED << tasks, toolsess, resp, chat, console, inflight >>

NextLong ==
  \/ Elapse
  \/ \E user \in Users, conversation_id \in Opt(ConversationIds) :
       long_turn(user, conversation_id)

SpecLong == Init /\ [][NextLong]_vars

\* C25: in every chat turn, on a conversation of any length, the history
\* handed to the agent holds every message of the conversation, in creation
\* order, and ends with the user message this turn has just saved.  Stated
\* for the turns that arrive at a clock reading of their own, where creation
\* order is the order of created_at.
C25_HistoryIsWholeConversation ==
  FreshReading =>
  \A user \in Users :
    \A conversation_id \in Reachable(user) :
      LET t == HistoryHanded(user, conversation_id)
          ids == { i \in DOMAIN t.messages :
                     t.messages[i].conversation_id = t.conversation_id }
      IN \A h \in t.history :
           /\ { h[i] : i \in DOMAIN h } = ids
           /\ \A i, j \in DOMAIN h : i < j => h[i] < h[j]
           /\ h[Len(h)] = Len(t.messages)

\* ------------------------------------------- overlapping requests on a task
\* Each request has its own ORM session (get_session) and, when deployed,
\* its own database connection.  Between the SELECT of its lookup and the
\* UPDATE of its commit the requests of other workers can read and commit.
MaxInflight == 2

StepKinds == { "update", "toggle", "delete", "complete_task" }

\* a request on a task: the update sends a title only
StepRequest(kind, user, task_id, title) ==
  [ kind |-> kind, user |-> user, task_id |-> task_id, title |-> title ]

\* the handler of a request, run on the rows db without interruption
Handler(db, clk, q) ==
  CASE q.kind = "update" ->
         update_task_handler(db, clk, q.user, q.task_id, q.title, None, None)
    [] q.kind = "toggle" ->
         toggle_task_completion_handler(db, clk, q.user, q.task_id)
    [] q.kind = "delete" ->
         delete_task_handler(db, clk, q.user, q.task_id, clk)
    [] q.kind = "complete_task" ->
         complete_task_impl(db, clk, q.user, NoPending, q.task_id)

\* the handler goes on to session.commit(): its lookup found the task, and
\* complete_task did not find it completed already
Commits(db, q, r) ==
  /\ r.ok
  /\ ~(q.kind = "complete_task" /\ db[q.task_id].completed)

\* the UPDATE the unit of work emits at commit: the columns whose value
\* differs from the loaded one, written to the row with the primary key,
\* whatever that row holds by now
Flush(current, loaded, written) ==
  [ c \in DOMAIN current |->
      IF written[c] # loaded[c] THEN written[c] ELSE current[c] ]

\* session.refresh(task) before the response is built
Refreshed(r, q, row) ==
  IF q.kind \in { "update", "toggle" }
  THEN [ r EXCEPT !.tasks = { TaskResponse(q.task_id, row) } ]
  ELSE r

InFlight(q, pc, ok, row, clk) ==
  [ kind |-> q.kind, user |-> q.user, task_id |-> q.task_id, title |-> q.title,
    pc |-> pc, ok |-> ok, row |-> row, at |-> clk ]

\* the request arrives and runs up to its commit: the lookup, the
\* assignments.  A request whose handler returns before the commit is done.
begin(q) ==
  /\ Len(inflight) < MaxInflight
  /\ LET o == Handler(tasks, now, q) IN
     IF Commits(tasks, q, o.resp)
     THEN /\ inflight' = Append(inflight,
                           InFlight(q, "read", FALSE, Some(tasks[q.task_id]), now))
          /\ UNCHANGED resp
     ELSE /\ inflight' = Append(inflight, InFlight(q, "done", o.resp.ok, None, now))
          /\ resp' = o.resp
  /\ UNCHANGED << tasks, now, toolsess, chat, console >>

\* session.commit() and the response of the request in slot s; clk is the
\* reading of datetime.now the handler took after its lookup
commit(s, clk) ==
  /\ s \in DOMAIN inflight
  /\ inflight[s].pc = "read"
  /\ clk \in inflight[s].at .. now
  /\ LET q == inflight[s]
         loaded == q.row[1]
         o == Handler([ tasks EXCEPT ![q.task_id] = loaded ], clk, q)
         row == Flush(tasks[q.task_id], loaded, o.tasks[q.task_id])
     IN /\ tasks' = [ tasks EXCEPT ![q.task_id] = row ]
        /\ resp' = Refreshed(o.resp, q, row)
        /\ inflight' = [ inflight EXCEPT ![s].pc = "done", ![s].ok = o.resp.ok ]
  /\ UNCHANGED << now, toolsess, chat, console >>

Done(s) == inflight[s].pc = "done" /\ inflight[s].ok

\* toggles of the owner and of another user, overlapping or not
NextToggle ==
  \/ Tick
  \/ create_task(Owner, PlainTitle, EmptyStr, Owner, now)
  \/ \E user \in Users, id \in TaskIds : begin(StepRequest("toggle", user, id, None))
  \/ \E s \in 1 .. MaxInflight, clk \in 0 .. MaxClock : commit(s, clk)

SpecToggle == Init /\ [][NextToggle]_vars

\* ----------------------------------------------------------------- C26
Toggled(id) ==
  Cardinality({ s \in DOMAIN inflight :
                  Done(s) /\ inflight[s].kind = "toggle" /\ inflight[s].task_id = id })

\* C26: whatever the interleaving of the reads and commits of the owner's
\* PATCH /api/tasks/{id}/complete requests, once they have committed the
\* task's completed is what applying the toggles one after the other gives:
\* the value it was created with (false) after an even number of toggles,
\* the opposite after an odd number.
C26_TogglesNotLost ==
  \A id \in DOMAIN tasks :
    (\A s \in DOMAIN inflight : inflight[s].task_id = id => inflight[s].pc = "done")
      => tasks[id].completed = (Toggled(id) % 2 = 1)

\* ----------------------------------------------------------------- C27
\* the requests that race with a delete
RaceRequests ==
  { StepRequest(k, Owner, id, IF k = "update" THEN Some(Run("b", 1)) ELSE None) :
      k \in StepKinds, id \in TaskIds }

NextRace ==
  \/ create_task(Owner, PlainTitle, EmptyStr, Owner, now)
  \/ \E q \in RaceRequests : begin(q)
  \/ \E s \in 1 .. MaxInflight : commit(s, now)

SpecRace == Init /\ [][NextRace]_vars

\* C27: once the delete of a task has committed, no later commit of an
\* update, toggle or complete_task request that overlapped it changes the
\* task's title, description or completed, and no request that commits on
\* the deleted task reports success.
C27_DeletedNeverModified ==
  [][ \A id \in DOMAIN tasks :
        tasks[id].deleted_at # NoTime =>
          /\ tasks'[id].title = tasks[id].title
          /\ tasks'[id].description = tasks[id].description
          /\ tasks'[id].completed = tasks[id].completed
          /\ \A s \in DOMAIN inflight :
               (inflight[s].task_id = id /\ inflight[s].pc = "read"
                  /\ inflight'[s].pc = "done") => ~inflight'[s].ok ]_vars

\* ----------------------------------------------------------------- C28
\* C28: after any sequence of chat requests by any callers, every message
\* references an existing conversation and carries the user_id of that
\* conversation's owner: no caller gets a message stored in a conversation
\* of someone else.
C28_MessagesBelongToOwner ==
  \A i \in DOMAIN messages :
    /\ messages[i].conversation_id \in DOMAIN conversations
    /\ messages[i].user_id = conversations[messages[i].conversation_id].user_id

\* a caller has just named a conversation that exists and holds messages, and
\* was refused: the conversation is not the caller's
C28_Witness ==
  /\ resp.op = "chat"
  /\ resp.status = 404
  /\ resp.id \in DOMAIN conversations
  /\ \E i \in DOMAIN messages : messages[i].conversation_id = resp.id

\* ------------------------------------------------- overlapping chat turns
\* send_chat_message suspends at "await run_agent": the user message is
\* committed by then, the assistant message is not.  Other requests are
\* served in between.

\* the turn up to the await: validation, the conversation, the user message.
\* What is committed by then is what a turn commits whose agent then fails.
TurnBegun(convs, msgs, db, clk, user, conversation_id, message) ==
  send_chat_message_handler(convs, msgs, db, clk, user, conversation_id, message,
                            [ calls |-> << >>, outcome |-> "timeout" ])

\* a faulty turn: the reply is saved also when the agent has failed
TurnEnded_always_replies(convs, msgs, clk, user, id, outcome) ==
  [ conversations |-> [ convs EXCEPT ![id].updated_at = clk ],
    messages |-> save_message(save_message(msgs, id, user, "assistant", "reply", << >>, clk),
                              id, user, "assistant", "reply", << >>, clk),
    resp |-> Response("http", "chat", id, TRUE, 200, "", "",
                      { [ conversation_id |-> id, response |-> "reply",
                          tool_calls |-> << >> ] }, {}) ]

\* the turn after the await, for an agent that called no tool
TurnEnded(convs, msgs, clk, user, id, outcome) ==
  IF outcome # "ok"
  THEN [ conversations |-> convs, messages |-> msgs,
         resp |-> AIServiceUnavailable(id, outcome) ]
  ELSE [ conversations |-> [ convs EXCEPT ![id].updated_at = clk ],
         messages |-> save_message(msgs, id, user, "assistant", "reply", << >>, clk),
         resp |-> Response("http", "chat", id, TRUE, 200, "", "",
                           { [ conversation_id |-> id, response |-> "reply",
                               tool_calls |-> << >> ] }, {}) ]

Turn(user, conversation_id, message_id, reply_id, pc, ok) ==
  [ kind |-> "chat", user |-> user, conversation_id |-> conversation_id,
    message_id |-> message_id, reply_id |-> reply_id, pc |-> pc, ok |-> ok ]

turn_begin(user, conversation_id, message) ==
  /\ Len(inflight) < MaxInflight
  /\ LET o == TurnBegun(conversations, messages, tasks, now, user, conversation_id,
                        message)
     IN /\ DOMAIN o.conversations \subseteq ConversationIds
        /\ conversations' = o.conversations
        /\ messages' = o.messages
        /\ IF o.agent
           THEN /\ inflight' = Append(inflight,
                     Turn(user, o.resp.id, Len(o.messages), 0, "agent", FALSE))
                /\ UNCHANGED resp
           ELSE /\ inflight' = Append(inflight, Turn(user, 0, 0, 0, "done", FALSE))
                /\ resp' = o.resp
  /\ UNCHANGED << tasks, now, toolsess, sessions, console >>

turn_end(s, outcome) ==
  /\ s \in DOMAIN inflight
  /\ inflight[s].pc = "agent"
  /\ LET t == inflight[s]
         o == TurnEnded(conversations, messages, now, t.user, t.conversation_id, outcome)
     IN /\ conversations' = o.conversations
        /\ messages' = o.messages
        /\ resp' = o.resp
        /\ inflight' = [ inflight EXCEPT ![s].pc = "done", ![s].ok = o.resp.ok,
                                         ![s].reply_id = IF o.resp.ok
                                                         THEN Len(o.messages) ELSE 0 ]
  /\ UNCHANGED << tasks, now, toolsess, sessions, console >>

NextOverlap ==
  \/ Tick
  \/ \E user \in Users, conversation_id \in Opt(1 .. (MaxConversations + 1)),
        message \in { PlainMessage, Run(" ", 1) } :
       turn_begin(user, conversation_id, message)
  \/ \E s \in 1 .. MaxInflight, outcome \in { "ok", "timeout", "error" } :
       turn_end(s, outcome)

SpecOverlap == Init /\ [][NextOverlap]_vars

\* ----------------------------------------------------------------- C29
Count(conversation_id, role) ==
  Cardinality({ i \in DOMAIN messages :
                  /\ messages[i].conversation_id = conversation_id
                  /\ messages[i].role = role })

\* C29: in every reachable state, turns failing and turns on one
\* conversation overlapping included, a conversation has at most as many
\* assistant messages as user messages, and every assistant message is the
\* reply of one turn, written after that turn's user message: later in
\* insertion order, not earlier in created_at, in the same conversation.
C29_RepliesFollowUserMessages ==
  /\ \A c \in DOMAIN conversations : Count(c, "assistant") <= Count(c, "user")
  /\ \A i \in DOMAIN messages :
       messages[i].role = "assistant" =>
         \E s \in DOMAIN inflight :
           /\ inflight[s].reply_id = i
           /\ \A r \in DOMAIN inflight : inflight[r].reply_id = i => r = s
           /\ inflight[s].message_id \in 1 .. (i - 1)
           /\ messages[inflight[s].message_id].role = "user"
           /\ messages[inflight[s].message_id].conversation_id =
                messages[i].conversation_id
           /\ messages[inflight[s].message_id].created_at <= messages[i].created_at

\* two turns on one conversation overlapped: the second began before the
\* first ended, one replied and one failed
C29_Witness ==
  /\ Len(inflight) = 2
  /\ inflight[1].conversation_id = inflight[2].conversation_id
  /\ inflight[1].pc = "done" /\ inflight[2].pc = "done"
  /\ inflight[1].ok /\ ~inflight[2].ok
  /\ inflight[2].message_id < inflight[1].reply_id
  /\ inflight[2].message_id > inflight[1].message_id

\* --------------------------------------------------- console: MenuApp.run
\* the lines of the longest input stream
MaxLines == 7

\* the lines typed at the prompts.  Choices, ids and confirmations hold no
\* surrounding blanks, so their strip() is left out.
ChoiceLines == { "1", "2", "3", "4", "5", "6", "7", "8", "" }
IdLines == { "1", "2", "0", "abc" }
ConfirmLines == { "y", "YES", "n" }
TitleLines == { EmptyStr, Run(" ", 1), Run("a", 1), Run("b", 1) \o Run(" ", 1),
                Run("a", TitleMax + 1) }
DescLines == { EmptyStr, Run("d", 1), Run("d", DescMax + 1) }

LinesAt(pc) ==
  CASE pc = "menu" -> ChoiceLines
    [] pc \in { "update_id", "delete_id", "complete_id", "incomplete_id" } -> IdLines
    [] pc = "delete_confirm" -> ConfirmLines
    [] pc \in { "add_title", "update_title" } -> TitleLines
    [] pc \in { "add_desc", "update_desc" } -> DescLines
    [] OTHER -> {}

\* int(id_str) of validate_id: the value, or ValueError
ParseInt(id_str) ==
  CASE id_str = "0" -> Some(0)
    [] id_str = "1" -> Some(1)
    [] id_str = "2" -> Some(2)
    [] OTHER -> None

\* str.lower() on the confirmations
Lower(text) == IF text = "YES" THEN "yes" ELSE text

validate_title(title) ==
  ~(title = EmptyStr \/ strip(title) = EmptyStr) /\ StrLen(title) <= TitleMax

validate_description(description) == StrLen(description) <= DescMax

\* Result.data of validate_id: the id, or None when the Result is a failure
validate_id(id_str) ==
  IF ParseInt(id_str) = None THEN None
  ELSE IF ParseInt(id_str)[1] <= 0 THEN None
  ELSE ParseInt(id_str)

\* a faulty read_input: the empty string that readline returns at the end of
\* the input is handed on as a line
read_input_no_eof(line, empty) ==
  [ eof |-> FALSE, text |-> IF line = None THEN empty ELSE line[1] ]

\* MenuApp.read_input: readline returns "" at the end of the input, and that
\* raises EOFError; empty is the empty string of the prompt
read_input(line, empty) ==
  IF line = None THEN [ eof |-> TRUE, text |-> empty ]
  ELSE [ eof |-> FALSE, text |-> line[1] ]

MenuOutcome(m, st, ids) == [ menu |-> m, storage |-> st, issued |-> ids ]

\* back to the top of the loop: the result is written, the menu shown again
ToMenu(m, st, out) ==
  MenuOutcome([ m EXCEPT !.pc = "menu", !.out = out, !.title = EmptyStr, !.id = 0 ],
              st, << >>)

\* on to the next prompt of the same operation
ToPrompt(m, st, pc) == MenuOutcome([ m EXCEPT !.pc = pc ], st, << >>)

\* the choice read at the menu prompt, up to the operation's first prompt
Chosen(m, st, choice) ==
  CASE choice = "1" -> ToPrompt(m, st, "add_title")
    [] choice = "2" -> ToMenu(m, st, IF DOMAIN st.tasks = {} THEN "No tasks found."
                                     ELSE "Total")
    [] choice = "3" -> IF DOMAIN st.tasks = {} THEN ToMenu(m, st, "No tasks to update.")
                       ELSE ToPrompt(m, st, "update_id")
    [] choice = "4" -> IF DOMAIN st.tasks = {} THEN ToMenu(m, st, "No tasks to delete.")
                       ELSE ToPrompt(m, st, "delete_id")
    [] choice = "5" -> IF \A k \in DOMAIN st.tasks : st.tasks[k].completed
                       THEN ToMenu(m, st, "No incomplete tasks.")
                       ELSE ToPrompt(m, st, "complete_id")
    [] choice = "6" -> IF \A k \in DOMAIN st.tasks : ~st.tasks[k].completed
                       THEN ToMenu(m, st, "No completed tasks.")
                       ELSE ToPrompt(m, st, "incomplete_id")
    [] choice = "7" ->
         MenuOutcome([ m EXCEPT !.pc = "exited",
                                !.out = "Goodbye! Thanks for using Todo CLI." ],
                     st, << >>)
    [] OTHER -> ToMenu(m, st, "ERROR: Invalid choice. Please enter 1-7.")

\* the id read at a prompt, up to the next prompt or the operation's end
IdGiven(m, st, clk, id_str) ==
  LET task_id == validate_id(id_str) IN
  IF task_id = None THEN ToMenu(m, st, "ERROR: Invalid task ID.")
  ELSE IF storage_get(st, task_id[1]) = None THEN ToMenu(m, st, "ERROR: Task not found.")
  ELSE LET task == storage_get(st, task_id[1])[1] IN
       CASE m.pc = "update_id" -> ToPrompt([ m EXCEPT !.id = task.id ], st, "update_title")
         [] m.pc = "delete_id" -> ToPrompt([ m EXCEPT !.id = task.id ], st, "delete_confirm")
         [] m.pc = "complete_id" ->
              IF task.completed THEN ToMenu(m, st, "Task is already complete.")
              ELSE ToMenu(m, storage_toggle_complete(st, clk, task.id).storage,
                          "SUCCESS: Task marked as complete!")
         [] m.pc = "incomplete_id" ->
              IF ~task.completed THEN ToMenu(m, st, "Task is already incomplete.")
              ELSE ToMenu(m, storage_toggle_complete(st, clk, task.id).storage,
                          "SUCCESS: Task marked as incomplete!")

\* add_task after its first prompt
AddTitle(m, st, line) ==
  LET title == strip(line) IN
  IF title = EmptyStr THEN ToMenu(m, st, "ERROR: Title cannot be empty.")
  ELSE IF ~validate_title(title) THEN ToMenu(m, st, "ERROR: Title must be 1-200 characters")
  ELSE ToPrompt([ m EXCEPT !.title = title ], st, "add_desc")

\* add_task after its second prompt
AddDescription(m, st, clk, line) ==
  LET description == strip(line) IN
  IF description # EmptyStr /\ ~validate_description(description)
  THEN ToMenu(m, st, "ERROR: Description must be 0-1000 characters")
  ELSE LET o == storage_add(st, clk, m.title, description)
       IN  [ ToMenu(m, o.storage, "SUCCESS: Task created successfully!")
               EXCEPT !.issued = << o.result.data[1].id >> ]

\* update_task after its last prompt: an empty answer keeps the current value
UpdateDescription(m, st, clk, line) ==
  LET current_task == st.tasks[m.id]
      new_description == strip(line)
      final_title == IF m.title # EmptyStr THEN m.title ELSE current_task.title
      final_description == IF new_description # EmptyStr THEN new_description
                           ELSE current_task.description
  IN
  IF ~validate_title(final_title)
  THEN ToMenu(m, st, "ERROR: Title must be 1-200 characters")
  ELSE IF final_description # EmptyStr /\ ~validate_description(final_description)
  THEN ToMenu(m, st, "ERROR: Description must be 0-1000 characters")
  ELSE ToMenu(m, storage_update(st, clk, m.id, final_title,
                                Some(final_description)).storage,
              "SUCCESS: Task updated successfully!")

\* delete_task after its confirmation prompt
Confirmed(m, st, confirm) ==
  IF Lower(confirm) \in { "y", "yes" }
  THEN ToMenu(m, storage_delete(st, m.id).storage, "SUCCESS: Task deleted successfully!")
  ELSE ToMenu(m, st, "Deletion cancelled.")

\* one pass from a read_input call to the next: the line is read, or the
\* input has ended and EOFError ends run()
MenuStep(m, st, clk, r) ==
  IF r.eof
  THEN MenuOutcome([ m EXCEPT !.pc = "exited", !.out = "Goodbye!" ], st, << >>)
  ELSE CASE m.pc = "menu" -> Chosen(m, st, r.text)
         [] m.pc \in { "update_id", "delete_id", "complete_id", "incomplete_id" } ->
              IdGiven(m, st, clk, r.text)
         [] m.pc = "add_title" -> AddTitle(m, st, r.text)
         [] m.pc = "add_desc" -> AddDescription(m, st, clk, r.text)
         [] m.pc = "update_title" ->
              ToPrompt([ m EXCEPT !.title = strip(r.text) ], st, "update_desc")
         [] m.pc = "update_desc" -> UpdateDescription(m, st, clk, r.text)
         [] m.pc = "delete_confirm" -> Confirmed(m, st, r.text)

Prompted(o) ==
  /\ menu' = o.menu
  /\ storage' = o.storage
  /\ issued' = issued \o o.issued
  /\ UNCHANGED << tasks, now, toolsess, resp, chat, inflight >>

EmptyAt(pc) ==
  IF pc \in { "add_title", "add_desc", "update_title", "update_desc" } THEN EmptyStr
  ELSE ""

\* run(): the banner, the menu, the first prompt
run ==
  /\ menu.pc = "start"
  /\ Prompted(ToPrompt(menu, storage, "menu"))

\* the stream holds another line
read_line(line) ==
  /\ menu.pc \notin { "start", "exited" }
  /\ menu.read < MaxLines
  /\ Prompted(MenuStep([ menu EXCEPT !.read = @ + 1 ], storage, now,
                       read_input(Some(line), EmptyAt(menu.pc))))

\* the stream has ended
read_eof ==
  /\ menu.pc \notin { "start", "exited" }
  /\ Prompted(MenuStep(menu, storage, now, read_input(None, EmptyAt(menu.pc))))

NextMenu ==
  \/ run
  \/ \E line \in LinesAt(menu.pc) : read_line(line)
  \/ read_eof

SpecMenu == Init /\ [][NextMenu]_vars

\* the process is scheduled as long as it has not exited
SpecMenuFair == SpecMenu /\ WF_vars(NextMenu)

\* ----------------------------------------------------------------- C30
StoredWhole(st) ==
  \A k \in DOMAIN st.tasks :
    /\ st.tasks[k].id = k
    /\ validate_title(st.tasks[k].title)
    /\ validate_description(st.tasks[k].description)

\* C30: run() terminates on every finite input stream.  It exits after
\* choice 7; when the input ends at the menu prompt or at any prompt of an
\* operation it writes Goodbye and exits, and the step that meets the end of
\* the input changes nothing in the storage: the operation it interrupts has
\* not created, updated or deleted anything.  Whenever run() has exited the
\* last line written is a Goodbye and every stored task is whole.
C30_RunTerminates ==
  /\ <>(menu.pc = "exited")
  /\ [](menu.pc = "exited" =>
          /\ menu.out \in { "Goodbye!", "Goodbye! Thanks for using Todo CLI." }
          /\ StoredWhole(storage))
  /\ [][ (menu.pc # "exited" /\ menu'.pc = "exited") =>
           /\ storage' = storage
           /\ menu.pc # "menu" => menu'.out = "Goodbye!" ]_vars

\* the input ended at the second prompt of an update, after a new title had
\* been typed, and the task has its old title
C30_Witness ==
  /\ menu.pc = "exited"
  /\ menu.out = "Goodbye!"
  /\ menu.id \in DOMAIN storage.tasks
  /\ menu.title # EmptyStr
  /\ storage.tasks[menu.id].title # menu.title

====
